---- MODULE Spec2Model ----
(***************************************************************************)
(* A model of the vellum shell-history daemon: the in-memory History       *)
(* (src/src/history/mod.rs), its on-disk store (day files and the          *)
(* active-chunk snapshot), the request handlers of the server              *)
(* (src/src/server.rs) and the git sync backend (src/src/sync/git.rs).     *)
(*                                                                         *)
(* Time is a natural number of clock ticks.  Every call of Utc::now() on a *)
(* host returns that host's clock and advances it by one tick, so the      *)
(* values one process reads are strictly increasing; the clocks of         *)
(* different hosts are not synchronised.  Second, HourLen and DayLen give  *)
(* the length of a second, an hour and a day in ticks.                     *)
(***************************************************************************)
EXTENDS Integers, Sequences, FiniteSets, TLC

----------------------------------------------------------------------------
(* Bounds of the model *)

\* number of operations (requests, kills, restarts, clock jumps, peer
\* publications) in one run
MaxOps == 5
\* number of syncs one daemon starts when two daemons share a remote
MaxSyncs == 2
\* number of entries the two daemons add between them
MaxAdds == 3
\* number of requests a client sends on one connection
MaxRequests == 3
\* number of times a peer places the lock tag on the remote
MaxLocks == 2
\* number of commits the remote branch takes while one daemon syncs with it
MaxPushes == 3
\* number of Store requests that daemon serves
MaxStores == 1
\* the number of frames the clients of one daemon write to their connections
MaxFrames == 3
\* the number of calls of load_entries in a run of imports
MaxLoads == 2
\* the number of records in the file that is written and read back
MaxRecords == 2

----------------------------------------------------------------------------
(* Time *)

EPOCH == 0
Second == 4
HourLen == 8
DayLen == 16

\* chrono: ts.duration_trunc(TimeDelta::hours(1))
HourOf(ts) == ts - (ts % HourLen)
\* chrono: ts.format("%Y-%m-%d"), a name that orders as the date does
DayOf(ts) == ts \div DayLen

----------------------------------------------------------------------------
(* Values *)

Hosts == {"alpha", "beta"}
HostRank == ("alpha" :> 1) @@ ("beta" :> 2)
HostSeq == <<"alpha", "beta">>

\* "" is the tombstone
Cmds == {"", "ls", "pwd"}
CmdRank == ("" :> 0) @@ ("ls" :> 1) @@ ("pwd" :> 2)

Paths == {"", "/home"}
PathRank == ("" :> 0) @@ ("/home" :> 1)

\* every id is generated by one operation
Ids == 1..MaxOps

\* struct Entry
Entry(id, ts, host, cmd, path, session) ==
    [id |-> id, ts |-> ts, host |-> host, cmd |-> cmd, path |-> path,
     session |-> session]

\* impl Ord for Entry: ts, then host, then cmd, then path
EntryLess(a, b) ==
    \/ a.ts < b.ts
    \/ /\ a.ts = b.ts
       /\ \/ HostRank[a.host] < HostRank[b.host]
          \/ /\ a.host = b.host
             /\ \/ CmdRank[a.cmd] < CmdRank[b.cmd]
                \/ /\ a.cmd = b.cmd
                   /\ PathRank[a.path] < PathRank[b.path]

EntryLeq(a, b) == ~EntryLess(b, a)

\* struct Chunk
Chunk(start, entries) == [start |-> start, entries |-> entries]

----------------------------------------------------------------------------
(* Sequences *)

Last(s) == s[Len(s)]

Range(s) == {s[i] : i \in 1..Len(s)}

RECURSIVE Concat(_)
\* the concatenation of a sequence of sequences
Concat(ss) == IF ss = <<>> THEN <<>> ELSE Head(ss) \o Concat(Tail(ss))

IsPrefix(s, t) == Len(s) <= Len(t) /\ SubSeq(t, 1, Len(s)) = s

RECURSIVE InsertEntry(_, _)
\* insert e after every element that is not greater than it (stable)
InsertEntry(s, e) ==
    IF s = <<>> THEN <<e>>
    ELSE IF EntryLess(e, Head(s)) THEN <<e>> \o s
    ELSE <<Head(s)>> \o InsertEntry(Tail(s), e)

RECURSIVE SortEntries(_)
\* Vec::sort on entries: a stable sort by the entry order
SortEntries(s) ==
    IF s = <<>> THEN <<>>
    ELSE InsertEntry(SortEntries(SubSeq(s, 1, Len(s) - 1)), Last(s))

RECURSIVE InsertChunk(_, _)
InsertChunk(s, c) ==
    IF s = <<>> THEN <<c>>
    ELSE IF c.start < Head(s).start THEN <<c>> \o s
    ELSE <<Head(s)>> \o InsertChunk(Tail(s), c)

RECURSIVE SortChunks(_)
\* chunks.sort_unstable_by_key(|chunk| chunk.start)
SortChunks(s) ==
    IF s = <<>> THEN <<>>
    ELSE InsertChunk(SortChunks(SubSeq(s, 1, Len(s) - 1)), Last(s))

IsSorted(s) == \A i \in 1..(Len(s) - 1) : EntryLeq(s[i], s[i + 1])

----------------------------------------------------------------------------
(* The store: records of a day file and of the active-chunk snapshot *)

CURRENT_CHUNK_VERSION == 1

\* write_chunk: EncryptedChunk::encrypt, then the framed record.  The
\* ciphertext is represented by the entries it seals.
WriteChunk(chunk) ==
    [version |-> CURRENT_CHUNK_VERSION, start |-> chunk.start,
     data |-> chunk.entries]

\* v0::Entry::convert: the legacy entry has no path
ConvertV0(e) == [e EXCEPT !.path = ""]

\* EncryptedChunk::decrypt: dispatches on the record's version
Decrypt(rec) ==
    IF rec.version = 0
    THEN Chunk(rec.start, [i \in 1..Len(rec.data) |-> ConvertV0(rec.data[i])])
    ELSE Chunk(rec.start, rec.data)

\* the entries held by the records of one file
FileEntries(file) == UNION {Range(Decrypt(file[i]).entries) : i \in 1..Len(file)}

\* the entries held by all day files of one host directory
DirEntries(dir) == UNION {FileEntries(dir[d]) : d \in DOMAIN dir}

RECURSIVE SortedDays(_)
\* the day files of a directory, by name
SortedDays(days) ==
    IF days = {} THEN <<>>
    ELSE LET m == CHOOSE d \in days : \A x \in days : d <= x
         IN <<m>> \o SortedDays(days \ {m})

----------------------------------------------------------------------------
(* struct History: host, history (host -> chunk list), merged, last_write *)

MapGet(history, host) == IF host \in DOMAIN history THEN history[host] ELSE <<>>

MapPut(history, host, chunks) ==
    [x \in (DOMAIN history) \cup {host} |->
        IF x = host THEN chunks ELSE history[x]]

EmptyMap == [x \in {} |-> <<>>]

\* self.history.entry(self.host.clone()).or_default()
OrDefault(H) ==
    [H EXCEPT !.history = MapPut(H.history, H.host, MapGet(H.history, H.host))]

\* History::new
NewHistory(host, now) ==
    [host |-> host, history |-> EmptyMap, merged |-> <<>>, last_write |-> now]

\* History::active_chunk: the last chunk of this host, if start > last_write
HasActive(H) ==
    LET chunks == MapGet(H.history, H.host)
    IN chunks # <<>> /\ Last(chunks).start > H.last_write

\* History::get_active_chunk: opens a new chunk (Chunk::new reads the clock)
\* unless the last chunk is active
GetActiveChunk(H, now) ==
    IF HasActive(H)
    THEN [H |-> OrDefault(H), ticks |-> 0]
    ELSE [H |-> [H EXCEPT !.history =
                    MapPut(H.history, H.host,
                           Append(MapGet(H.history, H.host), Chunk(now, <<>>)))],
          ticks |-> 1]

\* chunks.last_mut().unwrap().push(entry)
PushLast(H, e) ==
    LET chunks == H.history[H.host]
        n == Len(chunks)
    IN [H EXCEPT !.history[H.host] =
           [chunks EXCEPT ![n] = Chunk(chunks[n].start, Append(chunks[n].entries, e))]]

\* History::try_write_active: File::create truncates the snapshot, then the
\* active chunk, if there is one, is written
WriteActive(H) ==
    [H |-> OrDefault(H),
     snap |-> IF HasActive(H)
              THEN <<WriteChunk(Last(H.history[H.host]))>>
              ELSE <<>>]

\* every entry of every chunk, host by host
AllEntries(history) ==
    Concat([i \in 1..Len(HostSeq) |->
        Concat([j \in 1..Len(MapGet(history, HostSeq[i])) |->
            MapGet(history, HostSeq[i])[j].entries])])

WithId(entries, id) == SelectSeq(entries, LAMBDA e : e.id = id)

\* a collapse that takes the entries as it finds them
CollapseUnsorted(entries) ==
    [entries[1] EXCEPT !.cmd = Last(entries).cmd]

\* collapse_entries
CollapseEntries(entries) ==
    IF Len(entries) = 1 THEN entries[1]
    ELSE LET sorted == SortEntries(entries)
         IN [sorted[1] EXCEPT !.cmd = Last(sorted).cmd]

RECURSIVE CollapseFrom(_, _)
\* the collapsed entry of every id from i on, in id order (the BTreeMap's),
\* without the tombstoned ones
CollapseFrom(all, i) ==
    IF i > MaxOps THEN <<>>
    ELSE LET group == WithId(all, i)
         IN (IF group # <<>> /\ CollapseEntries(group).cmd # ""
             THEN <<CollapseEntries(group)>> ELSE <<>>)
            \o CollapseFrom(all, i + 1)

\* the value rebuild_merged computes
Merge(history) == SortEntries(CollapseFrom(AllEntries(history), 1))

\* History::rebuild_merged
RebuildMerged(H) == [H EXCEPT !.merged = Merge(H.history)]

----------------------------------------------------------------------------
(* Reading and writing the day files.  A sync directory maps each host that *)
(* has a directory under hosts/ to its day files (day -> records).          *)

NoDir == [d \in {} |-> <<>>]
NoFiles == [x \in {} |-> NoDir]

DirOf(files, host) == IF host \in DOMAIN files THEN files[host] ELSE NoDir

FileOf(dir, day) == IF day \in DOMAIN dir THEN dir[day] ELSE <<>>

\* a day file opened with File::create instead of append(true)
TruncateRecord(dir, day, rec) ==
    [d \in (DOMAIN dir) \cup {day} |-> IF d = day THEN <<rec>> ELSE dir[d]]

\* File::options().append(true).create(true), write_chunk
AppendRecord(dir, day, rec) ==
    [d \in (DOMAIN dir) \cup {day} |->
        IF d = day THEN Append(FileOf(dir, day), rec) ELSE dir[d]]

RECURSIVE WriteChunks(_, _, _)
\* the loop of History::write: every non-empty chunk with start > last_write
\* is appended to the day file of its start
WriteChunks(dir, chunks, last_write) ==
    IF chunks = <<>> THEN dir
    ELSE LET c == Head(chunks)
             next == IF c.start > last_write /\ c.entries # <<>>
                     THEN AppendRecord(dir, DayOf(c.start), WriteChunk(c))
                     ELSE dir
         IN WriteChunks(next, Tail(chunks), last_write)

\* History::write
Write(H, files, host) ==
    IF host \notin DOMAIN H.history THEN files
    ELSE [x \in (DOMAIN files) \cup {host} |->
            IF x = host
            THEN WriteChunks(DirOf(files, host), H.history[host], H.last_write)
            ELSE files[x]]

\* one watermark for every host: the time of this host's last save
LastWrite(H, host) == H.last_write

\* History::last_read
LastRead(H, host) ==
    IF MapGet(H.history, host) = <<>> THEN EPOCH
    ELSE Last(H.history[host]).start

\* the records of one day file that read_host keeps
NewChunks(file, last_read) ==
    LET kept == SelectSeq(file, LAMBDA rec : rec.start > last_read)
    IN [i \in 1..Len(kept) |-> Decrypt(kept[i])]

\* the records of start >= last_read kept, instead of start > last_read
ReadChunksInclusive(dir, last_read) ==
    LET days == SortedDays({d \in DOMAIN dir : d >= DayOf(last_read)})
    IN Concat([i \in 1..Len(days) |->
           LET kept == SelectSeq(dir[days[i]], LAMBDA rec : rec.start >= last_read)
           IN [j \in 1..Len(kept) |-> Decrypt(kept[j])]])

\* the loop of read_host over the day files (Store::read_chunks): a file
\* named earlier than the day of last_read is skipped, the chunks with
\* start > last_read of the others are collected
ReadChunks(dir, last_read) ==
    LET days == SortedDays({d \in DOMAIN dir : d >= DayOf(last_read)})
    IN Concat([i \in 1..Len(days) |-> NewChunks(dir[days[i]], last_read)])

\* History::read_host: the day files not older than the last chunk read,
\* the chunks with start > last_read appended, the list sorted by start
ReadHost(H, dir, host) ==
    LET last_read == LastRead(H, host)
        new == ReadChunks(dir, last_read)
    IN [H |-> [H EXCEPT !.history =
                  MapPut(H.history, host,
                         SortChunks(MapGet(H.history, host) \o new))],
        added |-> new # <<>>]

RECURSIVE ReadHosts(_, _, _, _)
\* the loop of History::read over the host directories
ReadHosts(H, files, hosts, empty) ==
    IF hosts = <<>> THEN [H |-> H, added |-> FALSE]
    ELSE LET host == Head(hosts)
             r == IF host \in DOMAIN files /\ (empty \/ host # H.host)
                  THEN ReadHost(H, files[host], host)
                  ELSE [H |-> H, added |-> FALSE]
             rest == ReadHosts(r.H, files, Tail(hosts), empty)
         IN [H |-> rest.H, added |-> r.added \/ rest.added]

\* History::read
Read(H, files) ==
    LET r == ReadHosts(H, files, HostSeq, DOMAIN H.history = {})
    IN IF r.added THEN RebuildMerged(r.H) ELSE r.H

\* History::read_active_chunk
ReadActiveChunk(H, snap) ==
    LET H1 == OrDefault(H)
        chunks == H1.history[H1.host]
        read == [i \in 1..Len(snap) |-> Decrypt(snap[i])]
        added == Len(Concat([i \in 1..Len(read) |-> read[i].entries]))
        H2 == [H1 EXCEPT !.last_write = read[1].start - Second,
                         !.history[H1.host] = chunks \o read]
    IN IF chunks # <<>> /\ Last(chunks).start > H1.last_write
       THEN [ok |-> FALSE, H |-> H1]
       ELSE IF snap = <<>> THEN [ok |-> TRUE, H |-> H1]
       ELSE [ok |-> TRUE, H |-> IF added > 0 THEN RebuildMerged(H2) ELSE H2]

\* History::load
Load(host, snap, files, now) ==
    ReadActiveChunk(Read(NewHistory(host, now), files), snap)

\* the orders in which fs::read_dir may yield the host directories and
\* HashMap::iter the hosts of `history`, and the orders of the day files
Reverse(s) == [i \in 1..Len(s) |-> s[Len(s) + 1 - i]]

HostOrders == {HostSeq, Reverse(HostSeq)}

DayOrders == {"ascending", "descending"}

\* every entry of every chunk, the hosts in the order HashMap::iter yields
AllEntriesIn(history, hosts) ==
    Concat([i \in 1..Len(hosts) |->
        Concat([j \in 1..Len(MapGet(history, hosts[i])) |->
            MapGet(history, hosts[i])[j].entries])])

\* History::rebuild_merged with that order
RebuildMergedIn(H, hosts) ==
    [H EXCEPT !.merged = SortEntries(CollapseFrom(AllEntriesIn(H.history, hosts), 1))]

\* History::read_host with the day files in the order fs::read_dir yields
ReadHostIn(H, dir, host, order) ==
    LET last_read == LastRead(H, host)
        sorted == SortedDays({d \in DOMAIN dir : d >= DayOf(last_read)})
        days == IF order = "ascending" THEN sorted ELSE Reverse(sorted)
        new == Concat([i \in 1..Len(days) |-> NewChunks(dir[days[i]], last_read)])
    IN [H |-> [H EXCEPT !.history =
                  MapPut(H.history, host,
                         SortChunks(MapGet(H.history, host) \o new))],
        added |-> new # <<>>]

RECURSIVE ReadHostsIn(_, _, _, _, _)
ReadHostsIn(H, files, hosts, empty, order) ==
    IF hosts = <<>> THEN [H |-> H, added |-> FALSE]
    ELSE LET host == Head(hosts)
             r == IF host \in DOMAIN files /\ (empty \/ host # H.host)
                  THEN ReadHostIn(H, files[host], host, order)
                  ELSE [H |-> H, added |-> FALSE]
             rest == ReadHostsIn(r.H, files, Tail(hosts), empty, order)
         IN [H |-> rest.H, added |-> r.added \/ rest.added]

\* History::read with these orders
ReadIn(H, files, hosts, order, map) ==
    LET r == ReadHostsIn(H, files, hosts, DOMAIN H.history = {}, order)
    IN IF r.added THEN RebuildMergedIn(r.H, map) ELSE r.H

----------------------------------------------------------------------------
(* The operations of History.  `now` is the host's clock when the operation *)
(* starts; `ticks` is the number of times the operation read the clock.     *)

\* an add that leaves its entry alone in merged
AddAlone(H, now, id, cmd, path, session) ==
    LET entry == Entry(id, now, H.host, cmd, path, session)
        g == GetActiveChunk(H, now + 1)
        H1 == PushLast(g.H, entry)
        H2 == [H1 EXCEPT !.merged = <<entry>>]
        w == WriteActive(H2)
    IN [H |-> w.H, snap |-> w.snap, ticks |-> 1 + g.ticks, entry |-> entry]

\* History::add
Add(H, now, id, cmd, path, session) ==
    LET entry == Entry(id, now, H.host, cmd, path, session)
        g == GetActiveChunk(H, now + 1)
        H1 == PushLast(g.H, entry)
        H2 == [H1 EXCEPT !.merged = Append(H1.merged, entry)]
        w == WriteActive(H2)
    IN [H |-> w.H, snap |-> w.snap, ticks |-> 1 + g.ticks, entry |-> entry]

\* the guard of History::update: the id is in merged
KnownId(H, id) == \E i \in 1..Len(H.merged) : H.merged[i].id = id

\* History::update, on an id that is in merged
Update(H, now, id, cmd, session) ==
    LET entry == Entry(id, now, H.host, cmd, "", session)
        g == GetActiveChunk(H, now + 1)
        H1 == RebuildMerged(PushLast(g.H, entry))
        w == WriteActive(H1)
    IN [H |-> w.H, snap |-> w.snap, ticks |-> 1 + g.ticks, entry |-> entry]

\* an update that looks for the id only after it has got the active chunk
OpenThenCheck(H, snap, now, id, cmd, session) ==
    LET g == GetActiveChunk(H, now + 1)
        r == Update(H, now, id, cmd, session)
    IN IF KnownId(H, id)
       THEN [ok |-> TRUE, H |-> r.H, snap |-> r.snap, ticks |-> r.ticks,
             entries |-> {r.entry}]
       ELSE [ok |-> FALSE, H |-> g.H, snap |-> snap, ticks |-> g.ticks,
             entries |-> {}]

\* History::update: the error for an id that merged does not hold is
\* returned before anything else is done
TryUpdate(H, snap, now, id, cmd, session) ==
    LET r == Update(H, now, id, cmd, session)
    IN IF KnownId(H, id)
       THEN [ok |-> TRUE, H |-> r.H, snap |-> r.snap, ticks |-> r.ticks,
             entries |-> {r.entry}]
       ELSE [ok |-> FALSE, H |-> H, snap |-> snap, ticks |-> 0,
             entries |-> {}]

\* the BTreeMap `current` of load_entries: is (id, cmd) what merged holds
IsCurrent(H, e) ==
    /\ KnownId(H, e.id)
    /\ LET last == CHOOSE i \in 1..Len(H.merged) :
                      /\ H.merged[i].id = e.id
                      /\ \A j \in (i + 1)..Len(H.merged) : H.merged[j].id # e.id
       IN H.merged[last].cmd = e.cmd

RECURSIVE PushAll(_, _)
PushAll(H, entries) ==
    IF entries = <<>> THEN H
    ELSE PushAll(PushLast(H, Head(entries)), Tail(entries))

\* a load that takes the entries of every host
LoadEveryHost(H, snap, now, entries) ==
    LET g == GetActiveChunk(H, now)
        new == SelectSeq(entries, LAMBDA e : ~IsCurrent(H, e))
        H1 == RebuildMerged(PushAll(g.H, new))
        w == WriteActive(H1)
    IN IF new = <<>>
       THEN [H |-> g.H, snap |-> snap, ticks |-> g.ticks, count |-> 0, new |-> new]
       ELSE [H |-> w.H, snap |-> w.snap, ticks |-> g.ticks, count |-> Len(new),
             new |-> new]

\* History::load_entries(entries, false)
LoadEntries(H, snap, now, entries) ==
    LET g == GetActiveChunk(H, now)
        new == SelectSeq(entries, LAMBDA e : e.host = H.host /\ ~IsCurrent(H, e))
        H1 == RebuildMerged(PushAll(g.H, new))
        w == WriteActive(H1)
    IN IF new = <<>>
       THEN [H |-> g.H, snap |-> snap, ticks |-> g.ticks, count |-> 0, new |-> new]
       ELSE [H |-> w.H, snap |-> w.snap, ticks |-> g.ticks, count |-> Len(new),
             new |-> new]

\* History::load_entries(entries, all_hosts): Ok(count), or the error for
\* all_hosts, returned before anything else is done
TryLoadEntries(H, snap, now, entries, all_hosts) ==
    LET r == LoadEntries(H, snap, now, entries)
    IN IF all_hosts
       THEN [ok |-> FALSE, H |-> H, snap |-> snap, ticks |-> 0,
             count |-> 0, new |-> <<>>]
       ELSE [ok |-> TRUE, H |-> r.H, snap |-> r.snap, ticks |-> r.ticks,
             count |-> r.count, new |-> r.new]

\* a save that moves the watermark without writing the day files
SaveNoWrite(H, files, now) ==
    LET w == WriteActive([H EXCEPT !.last_write = now])
    IN [H |-> w.H, snap |-> w.snap, files |-> files, ticks |-> 1]

\* History::save
Save(H, files, now) ==
    LET files1 == Write(H, files, H.host)
        w == WriteActive([H EXCEPT !.last_write = now])
    IN [H |-> w.H, snap |-> w.snap, files |-> files1, ticks |-> 1]

\* History::sync
Sync(H, files, now) ==
    LET s == Save(H, files, now)
    IN [H |-> Read(s.H, s.files), snap |-> s.snap, files |-> s.files, ticks |-> 1]

\* History::get_chunk_by_hour followed by chunk.push(entry)
PushByHour(history, e) ==
    LET hour == HourOf(e.ts)
        chunks == MapGet(history, e.host)
        n == Len(chunks)
    IN IF chunks # <<>> /\ Last(chunks).start = hour
       THEN MapPut(history, e.host,
                   [chunks EXCEPT ![n] = Chunk(hour, Append(chunks[n].entries, e))])
       ELSE MapPut(history, e.host, Append(chunks, Chunk(hour, <<e>>)))

RECURSIVE RebuildFrom(_, _)
RebuildFrom(history, merged) ==
    IF merged = <<>> THEN history
    ELSE RebuildFrom(PushByHour(history, Head(merged)), Tail(merged))

\* History::rebuild_chunks
RebuildChunks(H) == [H EXCEPT !.history = RebuildFrom(EmptyMap, H.merged)]

RECURSIVE WriteHosts(_, _, _)
\* the loop of rewrite_all_files over the hosts of the history map
WriteHosts(H, files, hosts) ==
    IF hosts = <<>> THEN files
    ELSE WriteHosts(H, Write(H, files, Head(hosts)), Tail(hosts))

\* History::rewrite_all_files
RewriteAllFiles(H, now) ==
    LET H1 == RebuildChunks(H)
        files1 == WriteHosts([H1 EXCEPT !.last_write = EPOCH], NoFiles, HostSeq)
        w == WriteActive([H1 EXCEPT !.last_write = now])
    IN [H |-> w.H, snap |-> w.snap, files |-> files1, ticks |-> 1]

----------------------------------------------------------------------------
(* State *)

VARIABLES
    up,       \* up[h]: the daemon of host h is running
    hist,     \* hist[h]: the History of the daemon of host h
    snap,     \* snap[h]: <state-dir>/history.chunk of host h, a list of records
    tree,     \* tree[h]: the hosts/ directory of the sync working tree of host h
    clock,    \* clock[h]: the value the next Utc::now() on host h returns
    nextId,   \* the next id Uuid::now_v7() returns
    stored,   \* the (id, cmd) of every Store request that was acknowledged
    added,    \* added[h]: the entries the History of h holds or has added
    last,     \* the operation of the last step, with its arguments
    ops,      \* the number of operations so far
    remote,   \* hosts/ at the head of the branch of the remote repository
    rver,     \* the head commit of the remote branch, as a version number
    base,     \* base[h]: the remote head that h has fetched or pushed last
    unpushed, \* unpushed[h]: the branch of h is ahead of its upstream
    pc,       \* pc[h]: where the daemon of h is in Server::sync
    syncs,    \* syncs[h]: the number of syncs h has started
    pending,  \* pending[h]: the (id, cmd) on the remote when h's sync began
    done,     \* done[h]: pending[h] of the last sync of h that succeeded
    retried,  \* retried[h]: a push of h was rejected and its retry succeeded
    onto,     \* onto[h]: the remote head that the branch of h descends from
    sent,     \* the requests the client has written to its connection
    handled,  \* the number of requests the server has read from it
    wire,     \* the responses the server has written to the connection
    got,      \* got[k]: the responses the k-th call of the client has read
    rb,       \* the worker thread of the Rebuild request being served
    rtag,     \* refs/tags/lock on the remote: 0, or the lock commit
    locks,    \* the number of lock commits the peer has pushed
    ltag,     \* refs/tags/lock in the local repository: 0, or the lock commit
    fpc,      \* where the daemon is in Git::fetch
    waited,   \* the seconds Git::fetch has waited for the lock
    fres,     \* how the last Git::fetch ended, and the remote tag at that time
    guard,    \* guard[h]: the lock commit of the GitGuard host h holds, or 0
    lres,     \* the last call of Git::lock: who, how it ended, the tag before
    running,  \* the daemon process whose threads are modelled is alive
    job,      \* job[t]: what thread t of the daemon is doing
    tpc,      \* tpc[t]: the step of its job that thread t is at, 0 if it has none
    owner,    \* owner[m]: the thread that holds mutex m of the Server, or "none"
    head,     \* hosts/ in the tree of the HEAD commit of the local branch
    sreq,     \* the request Server::sync or sync_local is serving
    prog,     \* how far the call of sync or sync_local has come
    sresp,    \* what the daemon has answered to the request it served last
    listening,\* <state-dir>/server.sock exists
    ppc,      \* ppc[p]: where process p is in start()
    pidLock,  \* the process that holds the lock on server.pid, or "none"
    pidFile,  \* the content of server.pid: "absent", "" or the pid written
    sock,     \* the process whose listener server.sock belongs to, or "none"
    writes,   \* writes[p]: the files p has changed or loaded since its open
    cst,      \* cst[c]: the thread of connection c: none, open, eof, failed
    cin,      \* cin[c]: the frame the client of c has written, not yet read
    cres,     \* cres[c]: the messages handle_request has yet to write to c
    clast,    \* clast[c]: the last message the server has written to c
    acked,    \* the ids of the Store requests whose Ack has been written
    wanted,   \* wanted[c]: acked when c wrote its last HistoryRequest
    erred,    \* erred[c]: the server has written an Error to c
    frames,   \* the number of frames the clients have written
    loaded,   \* the arguments and the result of the last load_entries
    view,     \* history() after two reads of hosts/ in different orders
    cfile,    \* the octets of one day file, or of the snapshot file
    cput,     \* the records that were written to cfile, in file order
    cread,    \* the key and the result of the last read of cfile
    interval, \* cfg.sync.interval of the daemon that was started
    bpc,      \* the position of the background sync thread
    wall,     \* the value the next Utc::now() of the daemon returns
    bnext,    \* `next` of background_sync: the boundary it sleeps until
    attempts, \* the values of the clock at which self.sync(false) was called
    logged,   \* the number of "Failed to run background sync" lines logged
    rebuilt   \* the rebuild that was pushed: the host, its history(), the syncs

histVars == <<up, hist, snap, tree, clock, nextId, stored, added, last, ops>>

histVarsButLast == <<up, hist, snap, tree, clock, nextId, stored, added, ops>>

gitVars ==
    <<remote, rver, base, unpushed, pc, syncs, pending, done, retried, onto>>

connVars == <<sent, handled, wire, got, rb>>

lockVars == <<rtag, locks, ltag, fpc, waited, fres>>

guardVars == <<guard, lres>>

mutexVars == <<running, job, tpc, owner>>

pushVars == <<head, sreq, prog, sresp, listening>>

pidVars == <<ppc, pidLock, pidFile, sock, writes>>

clientVars == <<cst, cin, cres, clast, acked, wanted, erred, frames>>

loadVars == <<loaded, view>>

codecVars == <<cfile, cput, cread>>

timerVars == <<interval, bpc, wall, bnext, attempts, logged>>

rebuildVars == <<rebuilt>>

auxVars ==
    <<guardVars, mutexVars, pushVars, pidVars, clientVars, loadVars, codecVars,
     timerVars, rebuildVars>>

\* the parts of auxVars other than the one group a specification is about
auxButGuard ==
    <<mutexVars, pushVars, pidVars, clientVars, loadVars, codecVars,
     timerVars, rebuildVars>>

auxButMutex ==
    <<guardVars, pushVars, pidVars, clientVars, loadVars, codecVars,
     timerVars, rebuildVars>>

auxButPush ==
    <<guardVars, mutexVars, pidVars, clientVars, loadVars, codecVars,
     timerVars, rebuildVars>>

auxButPid ==
    <<guardVars, mutexVars, pushVars, clientVars, loadVars, codecVars,
     timerVars, rebuildVars>>

auxButClient ==
    <<guardVars, mutexVars, pushVars, pidVars, loadVars, codecVars,
     timerVars, rebuildVars>>

auxButLoad ==
    <<guardVars, mutexVars, pushVars, pidVars, clientVars, codecVars,
     timerVars, rebuildVars>>

auxButCodec ==
    <<guardVars, mutexVars, pushVars, pidVars, clientVars, loadVars,
     timerVars, rebuildVars>>

auxButTimer ==
    <<guardVars, mutexVars, pushVars, pidVars, clientVars, loadVars,
     codecVars, rebuildVars>>

auxButRebuild ==
    <<guardVars, mutexVars, pushVars, pidVars, clientVars, loadVars,
     codecVars, timerVars>>

vars == <<histVars, gitVars, connVars, lockVars, auxVars>>

Self == "alpha"
Peer == "beta"

\* the clock of the daemon's host when it first starts, shortly before midnight
ClockStart == 2 * DayLen - 6
\* the clocks a peer may start with: a day behind, or a day ahead
PeerStarts == {DayLen, 3 * DayLen}

\* one more operation fits in the run
Step == ops < MaxOps /\ ops' = ops + 1

\* the record of an operation and its arguments
Op(name, id, cmd) == [op |-> name, id |-> id, cmd |-> cmd]

Sessions == {"s1"}

\* the commands of the requests and of the peer's entries
StoreCmds == {"", "ls"}
UpdateCmds == {"", "pwd"}
ImportCmds == {"pwd"}
PeerCmds == {"", "ls"}
\* the timestamps of imported entries: before and after every clock value
ImportTimes == {DayLen + 1, 4 * DayLen + 1}

\* the History of a daemon that is not running
NoHistory(h) == NewHistory(h, EPOCH)

\* the entries of the chunks a History holds for its own host
OwnEntries(H) ==
    UNION {Range(MapGet(H.history, H.host)[i].entries) :
             i \in 1..Len(MapGet(H.history, H.host))}

\* an empty remote repository that every host has cloned
GitInit ==
    /\ remote = NoFiles
    /\ rver = 0
    /\ base = [h \in Hosts |-> 0]
    /\ unpushed = [h \in Hosts |-> FALSE]
    /\ pc = [h \in Hosts |-> "idle"]
    /\ syncs = [h \in Hosts |-> 0]
    /\ pending = [h \in Hosts |-> {}]
    /\ done = [h \in Hosts |-> {}]
    /\ retried = [h \in Hosts |-> FALSE]
    /\ onto = [h \in Hosts |-> 0]

\* no thread runs Server::rebuild: `at` is the status the worker sends next
\* (0 when there is no worker), `said` the number of statuses it has sent,
\* `res` how the worker of the last Rebuild request ended
NoRebuild == [at |-> 0, said |-> 0, res |-> "none"]

\* a connection that a client has just opened
ConnInit ==
    /\ sent = <<>>
    /\ handled = 0
    /\ wire = <<>>
    /\ got = <<>>
    /\ rb = NoRebuild

\* no host holds the lock of the remote
GuardInit ==
    /\ guard = [h \in Hosts |-> 0]
    /\ lres = [host |-> "none", result |-> "none", before |-> 0, after |-> 0]

\* no lock tag, no fetch running
LockInit ==
    /\ rtag = 0
    /\ locks = 0
    /\ ltag = 0
    /\ fpc = "idle"
    /\ waited = 0
    /\ fres = [result |-> "none", rtag |-> 0]

\* the threads of one daemon: two connection handlers, the rebuild worker
\* each of them may spawn, the background sync and the signal handler
Threads == {"conn1", "conn2", "worker1", "worker2", "background", "signal"}

\* the two mutexes of struct Server
Mutexes == {"syncer", "history"}

\* a daemon that has just started: no thread has a job, no mutex is held
MutexInit ==
    /\ running = TRUE
    /\ job = [t \in Threads |-> "none"]
    /\ tpc = [t \in Threads |-> 0]
    /\ owner = [m \in Mutexes |-> "none"]

\* a call of Server::sync or sync_local that has not taken a step
NoProgress ==
    [refreshed |-> FALSE, written |-> FALSE, committed |-> FALSE,
     need |-> FALSE, attempts |-> 0, first |-> "none", pulled |-> FALSE,
     pushed |-> FALSE, saved |-> FALSE]

\* a clone of the empty remote; the daemon listens, no request being served
PushInit ==
    /\ head = NoFiles
    /\ sreq = [kind |-> "none", force |-> FALSE]
    /\ prog = NoProgress
    /\ sresp = <<>>
    /\ listening = TRUE

\* the processes that may run start() on the state directory
Procs == {"p1", "p2", "p3"}

\* a state directory that no server has used yet
PidInit ==
    /\ ppc = [p \in Procs |-> "off"]
    /\ pidLock = "none"
    /\ pidFile = "absent"
    /\ sock = "none"
    /\ writes = [p \in Procs |-> {}]

\* the connections of clients to one daemon
Conns == {"c1", "c2"}

\* what a client writes to its connection: a Message, or bytes that are none
Frame(kind, id, cmd) == [kind |-> kind, id |-> id, cmd |-> cmd]

NoFrame == Frame("none", 0, "")

\* a message the server writes, with the id of the entry of a Store and the
\* list of a History
Answer(msg, id, list) == [msg |-> msg, id |-> id, list |-> list]

NoAnswer == Answer("none", 0, <<>>)

ClientInit ==
    /\ cst = [c \in Conns |-> "none"]
    /\ cin = [c \in Conns |-> NoFrame]
    /\ cres = [c \in Conns |-> <<>>]
    /\ clast = [c \in Conns |-> NoAnswer]
    /\ acked = {}
    /\ wanted = [c \in Conns |-> {}]
    /\ erred = [c \in Conns |-> FALSE]
    /\ frames = 0

\* no call of load_entries yet
NoLoad ==
    [entries |-> <<>>, all_hosts |-> FALSE, ok |-> FALSE, count |-> 0,
     calls |-> 0]

\* hosts/ has not been read
NoView ==
    [fresh |-> FALSE, hosts |-> HostSeq, days |-> "ascending", map |-> HostSeq,
     one |-> <<>>, other |-> <<>>]

\* no read of cfile yet
NoRead == [done |-> FALSE, key |-> "", last_read |-> 0, ok |-> TRUE,
           chunks |-> <<>>]

\* the state of the parts that a run leaves alone
AuxInit ==
    /\ GuardInit /\ MutexInit /\ PushInit /\ PidInit /\ ClientInit
    /\ loaded = NoLoad
    /\ view = NoView
    /\ cfile = <<>>
    /\ cput = <<>>
    /\ cread = NoRead
    /\ interval = 0
    /\ bpc = "new"
    /\ wall = 0
    /\ bnext = 0
    /\ attempts = <<>>
    /\ logged = 0
    /\ rebuilt = [by |-> "none", view |-> {}, syncs |-> [h \in Hosts |-> 0]]

----------------------------------------------------------------------------
(* The daemon on one host, with the sync directory as the local backend    *)
(* presents it (src/src/sync/local.rs): a fixed directory, into which the  *)
(* peers' day files arrive from outside.                                    *)

Init ==
    /\ up = [h \in Hosts |-> h = Self]
    /\ hist = [h \in Hosts |->
                 IF h = Self THEN Load(h, <<>>, NoFiles, ClockStart).H
                 ELSE NoHistory(h)]
    /\ snap = [h \in Hosts |-> <<>>]
    /\ tree = [h \in Hosts |-> NoFiles]
    /\ clock \in {c \in [Hosts -> {ClockStart + 1} \cup PeerStarts] :
                    c[Self] = ClockStart + 1 /\ c[Peer] \in PeerStarts}
    /\ nextId = 1
    /\ stored = {}
    /\ added = [h \in Hosts |-> {}]
    /\ last = Op("load", 0, "")
    /\ ops = 0
    /\ GitInit /\ ConnInit /\ LockInit /\ AuxInit

\* Server::store: History::add with the next id, on the daemon of h
DoStore(h, cmd, path, session) ==
    /\ up[h] /\ Step /\ last' = Op("store", nextId, cmd)
    /\ LET r == Add(hist[h], clock[h], nextId, cmd, path, session)
       IN /\ hist' = [hist EXCEPT ![h] = r.H]
          /\ snap' = [snap EXCEPT ![h] = r.snap]
          /\ clock' = [clock EXCEPT ![h] = clock[h] + r.ticks]
          /\ stored' = stored \cup {<<nextId, cmd>>}
          /\ added' = [added EXCEPT ![h] = added[h] \cup {r.entry}]
    /\ nextId' = nextId + 1
    /\ UNCHANGED <<up, tree>>

\* Message::Store served by the daemon of h, and acknowledged
StoreReq(h, cmd, path, session) ==
    /\ DoStore(h, cmd, path, session)
    /\ UNCHANGED <<gitVars, connVars, lockVars, auxVars>>

\* Server::update: History::update on an id that it accepts
DoUpdate(h, id, cmd, session) ==
    /\ up[h] /\ Step /\ last' = Op("update", id, cmd)
    /\ KnownId(hist[h], id)
    /\ LET r == Update(hist[h], clock[h], id, cmd, session)
       IN /\ hist' = [hist EXCEPT ![h] = r.H]
          /\ snap' = [snap EXCEPT ![h] = r.snap]
          /\ clock' = [clock EXCEPT ![h] = clock[h] + r.ticks]
          /\ added' = [added EXCEPT ![h] = added[h] \cup {r.entry}]
    /\ UNCHANGED <<up, tree, nextId, stored>>

\* Server::update: History::update on any id
DoTryUpdate(h, id, cmd, session) ==
    /\ up[h] /\ Step
    /\ LET r == TryUpdate(hist[h], snap[h], clock[h], id, cmd, session)
       IN /\ last' = Op(IF r.ok THEN "update" ELSE "update_failed", id, cmd)
          /\ hist' = [hist EXCEPT ![h] = r.H]
          /\ snap' = [snap EXCEPT ![h] = r.snap]
          /\ clock' = [clock EXCEPT ![h] = clock[h] + r.ticks]
          /\ added' = [added EXCEPT ![h] = added[h] \cup r.entries]
    /\ UNCHANGED <<up, tree, nextId, stored>>

\* Message::Update served by the daemon of h
UpdateReq(h, id, cmd, session) ==
    /\ DoUpdate(h, id, cmd, session)
    /\ UNCHANGED <<gitVars, connVars, lockVars, auxVars>>

\* the entries a client may import: any id, host and command, with a
\* timestamp in the past or in the future of the daemon's clock
ImportEntries ==
    {Entry(id, ts, Self, cmd, "", "imported") :
        id \in Ids, ts \in ImportTimes, cmd \in ImportCmds}
    \cup {Entry(1, DayLen + 1, Peer, "pwd", "", "imported")}

ImportLists == {<<e>> : e \in ImportEntries}

\* History::load_entries(entries, false)
LoadReq(h, entries) ==
    /\ up[h] /\ Step /\ last' = Op("load_entries", 0, "")
    /\ \A i \in 1..Len(entries) : entries[i].id < nextId
    /\ LET r == LoadEntries(hist[h], snap[h], clock[h], entries)
       IN /\ hist' = [hist EXCEPT ![h] = r.H]
          /\ snap' = [snap EXCEPT ![h] = r.snap]
          /\ clock' = [clock EXCEPT ![h] = clock[h] + r.ticks]
          /\ added' = [added EXCEPT ![h] = added[h] \cup Range(r.new)]
    /\ UNCHANGED <<up, tree, nextId, stored>>
    /\ UNCHANGED <<gitVars, connVars, lockVars, auxVars>>

\* History::save
SaveOp(h) ==
    /\ up[h] /\ Step /\ last' = Op("save", 0, "")
    /\ LET r == Save(hist[h], tree[h], clock[h])
       IN /\ hist' = [hist EXCEPT ![h] = r.H]
          /\ snap' = [snap EXCEPT ![h] = r.snap]
          /\ tree' = [tree EXCEPT ![h] = r.files]
          /\ clock' = [clock EXCEPT ![h] = clock[h] + r.ticks]
    /\ UNCHANGED <<up, nextId, stored, added>>
    /\ UNCHANGED <<gitVars, connVars, lockVars, auxVars>>

\* History::sync
DoSync(h) ==
    /\ up[h] /\ Step /\ last' = Op("sync", 0, "")
    /\ LET r == Sync(hist[h], tree[h], clock[h])
       IN /\ hist' = [hist EXCEPT ![h] = r.H]
          /\ snap' = [snap EXCEPT ![h] = r.snap]
          /\ tree' = [tree EXCEPT ![h] = r.files]
          /\ clock' = [clock EXCEPT ![h] = clock[h] + r.ticks]
    /\ UNCHANGED <<up, nextId, stored, added>>

\* History::sync called on the daemon of h
SyncOp(h) ==
    /\ DoSync(h)
    /\ UNCHANGED <<gitVars, connVars, lockVars, auxVars>>

\* History::rewrite_all_files
RebuildOp(h) ==
    /\ up[h] /\ Step /\ last' = Op("rebuild", 0, "")
    /\ LET r == RewriteAllFiles(hist[h], clock[h])
       IN /\ hist' = [hist EXCEPT ![h] = r.H]
          /\ snap' = [snap EXCEPT ![h] = r.snap]
          /\ tree' = [tree EXCEPT ![h] = r.files]
          /\ clock' = [clock EXCEPT ![h] = clock[h] + r.ticks]
    /\ UNCHANGED <<up, nextId, stored, added>>
    /\ UNCHANGED <<gitVars, connVars, lockVars, auxVars>>

\* the process is killed while no request is being served
Kill(h) ==
    /\ up[h] /\ Step /\ last' = Op("kill", 0, "")
    /\ up' = [up EXCEPT ![h] = FALSE]
    /\ hist' = [hist EXCEPT ![h] = NoHistory(h)]
    /\ added' = [added EXCEPT ![h] = {}]
    /\ UNCHANGED <<snap, tree, clock, nextId, stored>>
    /\ UNCHANGED <<gitVars, connVars, lockVars, auxVars>>

\* the process is killed while it serves a further Store, inside
\* try_write_active, after File::create has truncated the snapshot and
\* before write_chunk: that Store is not acknowledged
KillInWriteActive(h) ==
    /\ up[h] /\ Step /\ last' = Op("kill", 0, "")
    /\ up' = [up EXCEPT ![h] = FALSE]
    /\ hist' = [hist EXCEPT ![h] = NoHistory(h)]
    /\ snap' = [snap EXCEPT ![h] = <<>>]
    /\ added' = [added EXCEPT ![h] = {}]
    /\ UNCHANGED <<tree, clock, nextId, stored>>
    /\ UNCHANGED <<gitVars, connVars, lockVars, auxVars>>

\* the process is killed inside History::save, after write has appended to
\* the day files and before the snapshot is rewritten
KillInSave(h) ==
    /\ up[h] /\ Step /\ last' = Op("kill", 0, "")
    /\ up' = [up EXCEPT ![h] = FALSE]
    /\ tree' = [tree EXCEPT ![h] = Write(hist[h], tree[h], h)]
    /\ hist' = [hist EXCEPT ![h] = NoHistory(h)]
    /\ added' = [added EXCEPT ![h] = {}]
    /\ UNCHANGED <<snap, clock, nextId, stored>>
    /\ UNCHANGED <<gitVars, connVars, lockVars, auxVars>>

\* the daemon is started again on the same state and sync directories:
\* Server::new, History::load
Restart(h) ==
    /\ ~up[h] /\ Step /\ last' = Op("load", 0, "")
    /\ LET r == Load(h, snap[h], tree[h], clock[h])
       IN /\ up' = [up EXCEPT ![h] = r.ok]
          /\ hist' = [hist EXCEPT ![h] = IF r.ok THEN r.H ELSE NoHistory(h)]
          /\ added' = [added EXCEPT ![h] = IF r.ok THEN OwnEntries(r.H) ELSE {}]
    /\ clock' = [clock EXCEPT ![h] = clock[h] + 1]
    /\ UNCHANGED <<snap, tree, nextId, stored>>
    /\ UNCHANGED <<gitVars, connVars, lockVars, auxVars>>

\* a second passes on host h
Tick(h) ==
    /\ Step /\ last' = Op("tick", 0, "")
    /\ clock' = [clock EXCEPT ![h] = clock[h] + Second]
    /\ UNCHANGED <<up, hist, snap, tree, nextId, stored, added>>
    /\ UNCHANGED <<gitVars, connVars, lockVars, auxVars>>

\* the ids that occur in some day file of a sync directory
PublishedIds(files) == {e.id : e \in UNION {DirEntries(files[x]) : x \in DOMAIN files}}

\* a peer's new chunk arrives in hosts/<peer>/ of the sync directory of h:
\* the chunk the peer's daemon wrote for one add (a fresh id, a command) or
\* for one deletion of an id it had read (History::add, History::update and
\* History::write on the peer, with the peer's clock)
PeerPublish(h, p, id, cmd) ==
    /\ p # h /\ Step /\ last' = Op("peer", id, cmd)
    /\ \/ id = nextId /\ cmd # ""
       \/ id \in PublishedIds(tree[h]) /\ cmd = ""
    /\ LET e == Entry(id, clock[p], p, cmd, "", "s1")
           c == Chunk(clock[p] + 1, <<e>>)
       IN tree' = [tree EXCEPT ![h] =
                      [x \in (DOMAIN tree[h]) \cup {p} |->
                          IF x = p
                          THEN AppendRecord(DirOf(tree[h], p), DayOf(c.start),
                                            WriteChunk(c))
                          ELSE tree[h][x]]]
    /\ clock' = [clock EXCEPT ![p] = clock[p] + 2]
    /\ nextId' = IF id = nextId THEN nextId + 1 ELSE nextId
    /\ UNCHANGED <<up, hist, snap, stored, added>>
    /\ UNCHANGED <<gitVars, connVars, lockVars, auxVars>>

\* the requests a client sends to the daemon of host h
Requests(h) ==
    \/ \E cmd \in StoreCmds, session \in Sessions :
          StoreReq(h, cmd, "/home", session)
    \/ \E id \in Ids, cmd \in UpdateCmds, session \in Sessions :
          UpdateReq(h, id, cmd, session)
    \/ \E entries \in ImportLists : LoadReq(h, entries)
    \/ SaveOp(h)
    \/ SyncOp(h)
    \/ RebuildOp(h)

Next ==
    \/ Requests(Self)
    \/ \E id \in Ids, cmd \in PeerCmds : PeerPublish(Self, Peer, id, cmd)

Spec == Init /\ [][Next]_vars

----------------------------------------------------------------------------
(* `vellum import`: History::load_entries on lists of one or two entries,  *)
(* of this host and of a peer, with ids that are and are not in history()  *)

\* an entry of this host with the first id and a timestamp in the past,
\* one with the second id and a timestamp in the future, one of the peer
LoadChoices ==
    {Entry(1, DayLen + 1, Self, "pwd", "", "imported"),
     Entry(2, 4 * DayLen + 1, Self, "pwd", "", "imported"),
     Entry(1, DayLen + 1, Peer, "pwd", "", "imported")}

LoadLists ==
    {<<e>> : e \in LoadChoices}
    \cup {<<Entry(1, DayLen + 1, Self, "pwd", "", "imported"), f>> :
            f \in LoadChoices}

\* History::load_entries(entries, all_hosts); an id of the list that no
\* daemon here has generated was generated elsewhere, and is not generated
\* again
LoadAny(h, entries, all_hosts) ==
    /\ up[h] /\ Step /\ loaded.calls < MaxLoads
    /\ \A i \in 1..Len(entries) : entries[i].id <= nextId
    /\ nextId' = IF \E i \in 1..Len(entries) : entries[i].id = nextId
                 THEN nextId + 1 ELSE nextId
    /\ LET r == TryLoadEntries(hist[h], snap[h], clock[h], entries, all_hosts)
       IN /\ last' = Op(IF r.ok THEN "load_entries" ELSE "load_failed", 0, "")
          /\ loaded' = [entries |-> entries, all_hosts |-> all_hosts,
                        ok |-> r.ok, count |-> r.count,
                        calls |-> loaded.calls + 1]
          /\ hist' = [hist EXCEPT ![h] = r.H]
          /\ snap' = [snap EXCEPT ![h] = r.snap]
          /\ clock' = [clock EXCEPT ![h] = clock[h] + r.ticks]
          /\ added' = [added EXCEPT ![h] = added[h] \cup Range(r.new)]
    /\ UNCHANGED <<up, tree, stored, view>>
    /\ UNCHANGED <<gitVars, connVars, lockVars, auxButLoad>>

NextLoad ==
    \/ \E cmd \in StoreCmds : StoreReq(Self, cmd, "/home", "s1")
    \/ \E entries \in LoadLists, all_hosts \in BOOLEAN :
          LoadAny(Self, entries, all_hosts)
    \/ SyncOp(Self)
    \/ \E id \in Ids, cmd \in PeerCmds : PeerPublish(Self, Peer, id, cmd)

SpecLoad == Init /\ [][NextLoad]_vars

----------------------------------------------------------------------------
(* History::read of one sync directory, by a History that is new (a daemon *)
(* that starts) or that has read before (a sync), in the order HostSeq and *)
(* ascending days and in any other order.  The directory is read when the  *)
(* operations that fill it are over.                                        *)

ReadDir(fresh, hosts, days, map) ==
    /\ up[Self] /\ ops = MaxOps /\ last' = Op("read", 0, "")
    /\ LET H == IF fresh THEN NewHistory(Self, clock[Self]) ELSE hist[Self]
       IN view' = [fresh |-> fresh, hosts |-> hosts, days |-> days, map |-> map,
                   one |-> Read(H, tree[Self]).merged,
                   other |-> ReadIn(H, tree[Self], hosts, days, map).merged]
    /\ UNCHANGED <<up, hist, snap, tree, clock, nextId, stored, added, ops>>
    /\ UNCHANGED <<loaded, gitVars, connVars, lockVars, auxButLoad>>

NextRead ==
    \/ StoreReq(Self, "ls", "/home", "s1")
    \/ SyncOp(Self)
    \/ Tick(Self)
    \/ \E id \in Ids, cmd \in PeerCmds : PeerPublish(Self, Peer, id, cmd)
    \/ \E fresh \in BOOLEAN, hosts \in HostOrders, days \in DayOrders,
          map \in HostOrders : ReadDir(fresh, hosts, days, map)

SpecRead == Init /\ [][NextRead]_vars

----------------------------------------------------------------------------
(* The chunk codec, octet by octet: the records of one file as write_chunk *)
(* and the writers of other releases frame them, and as HistoryFile and    *)
(* EncryptedChunk::decrypt read them back.  An octet stands for one item   *)
(* of the MessagePack encoding; the file is read when its writers are over. *)

Octet(t, v) == [t |-> t, v |-> v]

Byte(n) == Octet("byte", n)

CodecKeys == {"k1", "k2"}

Nonces == {"n1", "n2"}

CodecE1 == Entry(1, 1, "alpha", "ls", "/home", "s1")
CodecE2 == Entry(2, 2, "alpha", "pwd", "/home", "s1")

\* the chunks that are written: empty, one entry, two entries in both orders
CodecChunks ==
    {Chunk(start, entries) :
        start \in {1, 2},
        entries \in {<<>>, <<CodecE1>>, <<CodecE1, CodecE2>>,
                     <<CodecE2, CodecE1>>}}

\* the versions of the writers: the legacy release, this one, a later one
Versions == {0, 1, 2}

\* rmp_serde::to_vec(&chunk.entries): the array header, then the six fields
\* of each entry
ToVec(entries) ==
    <<Octet("array", Len(entries))>> \o
    [i \in 1..Len(entries) |->
        Octet("entry", <<entries[i].id, entries[i].ts, entries[i].host,
                         entries[i].cmd, entries[i].path,
                         entries[i].session>>)]

\* the same of a list of v0::Entry, which has no path
ToVecV0(entries) ==
    <<Octet("array", Len(entries))>> \o
    [i \in 1..Len(entries) |->
        Octet("entry", <<entries[i].id, entries[i].ts, entries[i].host,
                         entries[i].cmd, entries[i].session>>)]

\* rmp_serde::from_slice of a list of structs of `fields` fields
FromSlice(data, fields) ==
    /\ Len(data) >= 1
    /\ data[1].t = "array"
    /\ data[1].v = Len(data) - 1
    /\ \A i \in 2..Len(data) : data[i].t = "entry" /\ Len(data[i].v) = fields

\* Chunk::read
ChunkRead(start, data) ==
    IF FromSlice(data, 6)
    THEN [ok |-> TRUE,
          chunk |-> Chunk(start,
              [i \in 1..(Len(data) - 1) |->
                  LET f == data[i + 1].v
                  IN Entry(f[1], f[2], f[3], f[4], f[5], f[6])])]
    ELSE [ok |-> FALSE, chunk |-> Chunk(start, <<>>)]

\* v0::read, with v0::Entry::convert
V0Read(start, data) ==
    IF FromSlice(data, 5)
    THEN [ok |-> TRUE,
          chunk |-> Chunk(start,
              [i \in 1..(Len(data) - 1) |->
                  LET f == data[i + 1].v
                  IN Entry(f[1], f[2], f[3], f[4], "", f[5])])]
    ELSE [ok |-> FALSE, chunk |-> Chunk(start, <<>>)]

\* seal_in_place_append_tag of AES-256-GCM: each octet encrypted in place
\* under the key and the nonce, the authentication tag appended
Seal(key, nonce, plain) ==
    [i \in 1..Len(plain) |->
        Octet("sealed", [key |-> key, nonce |-> nonce, at |-> i,
                         plain |-> plain[i]])] \o
    <<Octet("tag", [key |-> key, nonce |-> nonce, len |-> Len(plain)])>>

\* what counter mode makes of an octet of plaintext whose ciphertext was
\* modified: another octet of the same kind
Mangle(p) ==
    IF p.t = "array" THEN Octet("array", p.v + 1)
    ELSE Octet("entry", [p.v EXCEPT ![4] = "rm"])

\* decryption that does not verify the tag
OpenUnverified(key, nonce, data) ==
    LET n == Len(data) - 1
    IN IF Len(data) >= 1 /\ \A i \in 1..n : data[i].v.key = key
       THEN [ok |-> TRUE,
             plain |-> [i \in 1..n |->
                          IF data[i].t = "sealed" THEN data[i].v.plain
                          ELSE Mangle(data[i].v.plain)]]
       ELSE [ok |-> FALSE, plain |-> <<>>]

\* open_in_place: the tag is verified over the whole ciphertext before any
\* plaintext is released
Open(key, nonce, data) ==
    LET n == Len(data) - 1
    IN IF /\ Len(data) >= 1
          /\ data[Len(data)].t = "tag"
          /\ data[Len(data)].v = [key |-> key, nonce |-> nonce, len |-> n]
          /\ \A i \in 1..n :
                /\ data[i].t = "sealed"
                /\ data[i].v.key = key
                /\ data[i].v.nonce = nonce
                /\ data[i].v.at = i
       THEN [ok |-> TRUE, plain |-> [i \in 1..n |-> data[i].v.plain]]
       ELSE [ok |-> FALSE, plain |-> <<>>]

\* EncryptedChunk::encrypt, with the nonce the key draws
Encrypt(chunk, key, nonce) ==
    [version |-> CURRENT_CHUNK_VERSION, start |-> chunk.start,
     nonce |-> nonce, data |-> Seal(key, nonce, ToVec(chunk.entries))]

\* the EncryptedChunk a writer of another release makes: version 0 seals
\* the legacy entries, a later version is taken to keep the layout
EncryptAs(version, chunk, key, nonce) ==
    [version |-> version, start |-> chunk.start, nonce |-> nonce,
     data |-> Seal(key, nonce, IF version = 0 THEN ToVecV0(chunk.entries)
                               ELSE ToVec(chunk.entries))]

\* EncryptedChunk::decrypt
DecryptWith(enc, key) ==
    LET o == Open(key, enc.nonce, enc.data)
    IN IF ~o.ok THEN [ok |-> FALSE, chunk |-> Chunk(enc.start, <<>>)]
       ELSE IF enc.version = 0 THEN V0Read(enc.start, o.plain)
       ELSE IF enc.version = CURRENT_CHUNK_VERSION
            THEN ChunkRead(enc.start, o.plain)
       ELSE [ok |-> FALSE, chunk |-> Chunk(enc.start, <<>>)]

\* rmp_serde::to_vec(&chunk) of an EncryptedChunk: version is skipped
ToVecChunk(enc) ==
    <<Octet("start", enc.start), Octet("nonce", enc.nonce),
      Octet("bin", Len(enc.data))>> \o enc.data

\* header.to_be_bytes() of len | version << 56.  A length of the model is
\* below 2^24: its upper four octets are 0, and the first octet of the
\* header is the version alone.
HeaderBytes(len, version) ==
    <<Byte(version), Byte(0), Byte(0), Byte(0), Byte(0),
      Byte((len \div 65536) % 256), Byte((len \div 256) % 256),
      Byte(len % 256)>>

\* the two lines of write_chunk that write to the file
Framed(enc) ==
    LET data == ToVecChunk(enc)
    IN HeaderBytes(Len(data), enc.version) \o data

\* header & 0x00ffffffffffffff of the eight octets at b: a length of 2^24
\* or more is beyond every file of the model
HeaderLen(b) ==
    IF \E i \in 2..5 : b[i].v # 0 THEN 16777216
    ELSE (b[6].v * 256 + b[7].v) * 256 + b[8].v

\* (header & 0xff00000000000000) >> 56
HeaderVersion(b) == b[1].v

\* HistoryFile::read of history/mod.rs at offset pos: nothing at the end of
\* the file or inside a header, an error when the payload is cut short or
\* is no EncryptedChunk, else the chunk with the version of the header
HistoryFileRead(file, pos) ==
    IF Len(file) - pos < 8 THEN [res |-> "none"]
    ELSE LET b == SubSeq(file, pos + 1, pos + 8)
             len == HeaderLen(b)
             data == SubSeq(file, pos + 9, pos + 8 + len)
         IN IF \E i \in 1..8 : b[i].t # "byte" THEN [res |-> "err"]
            ELSE IF Len(file) - pos - 8 < len THEN [res |-> "err"]
            ELSE IF /\ len >= 3
                    /\ data[1].t = "start"
                    /\ data[2].t = "nonce"
                    /\ data[3].t = "bin"
                    /\ data[3].v = len - 3
                 THEN [res |-> "some", pos |-> pos + 8 + len,
                       chunk |-> [version |-> HeaderVersion(b),
                                  start |-> data[1].v, nonce |-> data[2].v,
                                  data |-> SubSeq(data, 4, len)]]
            ELSE [res |-> "err"]

RECURSIVE ReadFile(_, _, _, _)
\* the chain of History::read_host on one file: the records with
\* start > last_read decrypted, the first error ending the read.  With
\* last_read below every start this is the loop of read_active_chunk too.
ReadFile(file, pos, key, last_read) ==
    LET r == HistoryFileRead(file, pos)
    IN IF r.res = "none" THEN [ok |-> TRUE, chunks |-> <<>>]
       ELSE IF r.res = "err" THEN [ok |-> FALSE, chunks |-> <<>>]
       ELSE IF ~(r.chunk.start > last_read)
            THEN ReadFile(file, r.pos, key, last_read)
       ELSE LET d == DecryptWith(r.chunk, key)
                rest == ReadFile(file, r.pos, key, last_read)
            IN IF d.ok /\ rest.ok
               THEN [ok |-> TRUE, chunks |-> <<d.chunk>> \o rest.chunks]
               ELSE [ok |-> FALSE, chunks |-> <<>>]

\* the record of a write
Put(version, chunk, key, nonce, at) ==
    [version |-> version, chunk |-> chunk, key |-> key, nonce |-> nonce,
     at |-> at, hit |-> FALSE]

\* write_chunk(f, chunk, key) on the file opened for append
CodecWrite(chunk, key, nonce) ==
    /\ ~cread.done /\ Len(cput) < MaxRecords
    /\ \A i \in 1..Len(cput) : ~cput[i].hit
    /\ cfile' = cfile \o Framed(Encrypt(chunk, key, nonce))
    /\ cput' = Append(cput, Put(CURRENT_CHUNK_VERSION, chunk, key, nonce,
                                Len(cfile)))
    /\ UNCHANGED <<cread, histVars, gitVars, connVars, lockVars, auxButCodec>>

\* a record that a release with another chunk version has appended
OtherWrite(version, chunk, key, nonce) ==
    /\ ~cread.done /\ Len(cput) < MaxRecords
    /\ version # CURRENT_CHUNK_VERSION
    /\ \A i \in 1..Len(cput) : ~cput[i].hit
    /\ cfile' = cfile \o Framed(EncryptAs(version, chunk, key, nonce))
    /\ cput' = Append(cput, Put(version, chunk, key, nonce, Len(cfile)))
    /\ UNCHANGED <<cread, histVars, gitVars, connVars, lockVars, auxButCodec>>

\* one octet of the ciphertext of record j, or of its tag, is modified
Modify(j, i) ==
    /\ ~cread.done
    /\ \A k \in 1..Len(cput) : ~cput[k].hit
    /\ i > cput[j].at
    /\ i <= (IF j = Len(cput) THEN Len(cfile) ELSE cput[j + 1].at)
    /\ cfile[i].t \in {"sealed", "tag"}
    /\ cfile' = [cfile EXCEPT ![i].t = "modified"]
    /\ cput' = [cput EXCEPT ![j].hit = TRUE]
    /\ UNCHANGED <<cread, histVars, gitVars, connVars, lockVars, auxButCodec>>

\* the file read with a key, as a day file by a History whose last chunk
\* of the host has start last_read
CodecRead(key, last_read) ==
    /\ ~cread.done /\ cput # <<>>
    /\ LET r == ReadFile(cfile, 0, key, last_read)
       IN cread' = [done |-> TRUE, key |-> key, last_read |-> last_read,
                    ok |-> r.ok, chunks |-> r.chunks]
    /\ UNCHANGED <<cfile, cput, histVars, gitVars, connVars, lockVars,
                   auxButCodec>>

NextCodec ==
    \/ \E chunk \in CodecChunks, key \in CodecKeys, nonce \in Nonces :
          CodecWrite(chunk, key, nonce)
    \/ \E version \in Versions, chunk \in CodecChunks :
          OtherWrite(version, chunk, "k1", "n1")
    \/ \E j \in 1..Len(cput), i \in 1..Len(cfile) : Modify(j, i)
    \/ \E key \in CodecKeys, last_read \in {0, 1} : CodecRead(key, last_read)

SpecCodec == Init /\ [][NextCodec]_vars

----------------------------------------------------------------------------
(* The History of one daemon under the wall clock.  Utc::now() reads the   *)
(* system's real-time clock, which its administrator or a time service may *)
(* set to an earlier time while the daemon runs.                            *)

\* the clock of host h is set back by d
SetBack(h, d) ==
    /\ Step /\ last' = Op("set_back", 0, "")
    /\ clock[h] > d
    /\ clock' = [clock EXCEPT ![h] = clock[h] - d]
    /\ UNCHANGED <<up, hist, snap, tree, nextId, stored, added>>
    /\ UNCHANGED <<gitVars, connVars, lockVars, auxVars>>

NextWall ==
    \/ StoreReq(Self, "ls", "/home", "s1")
    \/ \E id \in Ids, cmd \in UpdateCmds : UpdateReq(Self, id, cmd, "s1")
    \/ SaveOp(Self)
    \/ Tick(Self)
    \/ \E d \in {Second, HourLen} : SetBack(Self, d)

SpecWall == Init /\ [][NextWall]_vars

----------------------------------------------------------------------------
(* The daemon killed and started again on the same directories *)

NextCrash ==
    \/ \E cmd \in StoreCmds, session \in Sessions :
          StoreReq(Self, cmd, "/home", session)
    \/ SaveOp(Self)
    \/ SyncOp(Self)
    \/ Kill(Self)
    \/ KillInWriteActive(Self)
    \/ KillInSave(Self)
    \/ Restart(Self)
    \/ Tick(Self)

SpecCrash == Init /\ [][NextCrash]_vars

----------------------------------------------------------------------------
(* Two daemons that sync through one remote git repository.  The working   *)
(* tree of host h is tree[h]; a host writes only below hosts/<h>/, so a     *)
(* rebase never conflicts and the content of a commit is the directories of *)
(* all hosts.                                                               *)

\* index.add_all: git tracks files, so a directory without a day file is
\* not part of a commit
Tracked(files) == [x \in {y \in DOMAIN files : files[y] # NoDir} |-> files[x]]

\* Git::rebase: the local commits are replayed on the new upstream
Pull(files, upstream, h) ==
    [x \in (DOMAIN upstream) \cup ((DOMAIN files) \cap {h}) |->
        IF x = h /\ h \in DOMAIN files THEN files[h] ELSE upstream[x]]

\* the (id, cmd) of the entries the other hosts have pushed
Pushed(upstream, h) ==
    {<<e.id, e.cmd>> :
        e \in UNION {DirEntries(upstream[x]) : x \in (DOMAIN upstream) \ {h}}}

InitSync ==
    /\ up = [h \in Hosts |-> TRUE]
    /\ clock \in {c \in [Hosts -> {ClockStart + 1} \cup {t + 1 : t \in PeerStarts}] :
                    c[Self] = ClockStart + 1 /\ c[Peer] - 1 \in PeerStarts}
    /\ hist = [h \in Hosts |-> Load(h, <<>>, NoFiles, clock[h] - 1).H]
    /\ snap = [h \in Hosts |-> <<>>]
    /\ tree = [h \in Hosts |-> NoFiles]
    /\ nextId = 1
    /\ stored = {}
    /\ added = [h \in Hosts |-> {}]
    /\ last = Op("load", 0, "")
    /\ ops = 0
    /\ GitInit /\ ConnInit /\ LockInit /\ AuxInit

\* Server::sync up to the push: Syncer::refresh (Git::pull, which rebases
\* if its fetch moved the upstream branch), History::sync, and the commit of
\* push_changes; the sync is over if nothing is left to push
SyncStart(h) ==
    /\ up[h] /\ pc[h] = "idle" /\ syncs[h] < MaxSyncs
    /\ LET pulled == IF base[h] # rver THEN Pull(tree[h], remote, h) ELSE tree[h]
           r == Sync(hist[h], pulled, clock[h])
           ahead == unpushed[h] \/ Tracked(r.files) # Tracked(pulled)
       IN /\ hist' = [hist EXCEPT ![h] = r.H]
          /\ snap' = [snap EXCEPT ![h] = r.snap]
          /\ tree' = [tree EXCEPT ![h] = r.files]
          /\ clock' = [clock EXCEPT ![h] = clock[h] + r.ticks]
          /\ unpushed' = [unpushed EXCEPT ![h] = ahead]
          /\ pc' = [pc EXCEPT ![h] = IF ahead THEN "push" ELSE "idle"]
          /\ done' = [done EXCEPT ![h] =
                         IF ahead THEN done[h] ELSE Pushed(remote, h)]
    /\ base' = [base EXCEPT ![h] = rver]
    /\ onto' = [onto EXCEPT ![h] = IF base[h] # rver THEN rver ELSE onto[h]]
    /\ syncs' = [syncs EXCEPT ![h] = syncs[h] + 1]
    /\ pending' = [pending EXCEPT ![h] = Pushed(remote, h)]
    /\ last' = Op("sync", 0, "")
    /\ UNCHANGED <<up, nextId, stored, added, ops, remote, rver, retried>>
    /\ UNCHANGED <<connVars, lockVars, auxVars>>

\* Git::try_push accepted: the remote head is the upstream of the branch
Accepted(h, again) ==
    /\ onto[h] = rver
    /\ remote' = Tracked(tree[h])
    /\ rver' = rver + 1
    /\ base' = [base EXCEPT ![h] = rver + 1]
    /\ onto' = [onto EXCEPT ![h] = rver + 1]
    /\ unpushed' = [unpushed EXCEPT ![h] = FALSE]
    /\ pc' = [pc EXCEPT ![h] = "idle"]
    /\ done' = [done EXCEPT ![h] = pending[h]]
    /\ retried' = [retried EXCEPT ![h] = retried[h] \/ again]

\* Git::push, the first try_push: accepted, or rejected as NotFastForward
TryPush(h) ==
    /\ pc[h] = "push"
    /\ \/ Accepted(h, FALSE)
       \/ /\ onto[h] # rver
          /\ pc' = [pc EXCEPT ![h] = "retry"]
          /\ UNCHANGED <<remote, rver, base, unpushed, done, retried, onto>>
    /\ last' = Op("push", 0, "")
    /\ UNCHANGED <<histVarsButLast, syncs, pending>>
    /\ UNCHANGED <<connVars, lockVars, auxVars>>

\* Git::push after NotFastForward: self.pull()
RetryPull(h) ==
    /\ pc[h] = "retry"
    /\ tree' = [tree EXCEPT ![h] =
                   IF base[h] # rver THEN Pull(tree[h], remote, h) ELSE tree[h]]
    /\ onto' = [onto EXCEPT ![h] = IF base[h] # rver THEN rver ELSE onto[h]]
    /\ base' = [base EXCEPT ![h] = rver]
    /\ pc' = [pc EXCEPT ![h] = "again"]
    /\ last' = Op("pull", 0, "")
    /\ UNCHANGED <<up, hist, snap, clock, nextId, stored, added, ops>>
    /\ UNCHANGED <<remote, rver, unpushed, syncs, pending, done, retried>>
    /\ UNCHANGED <<connVars, lockVars, auxVars>>

\* Git::push after NotFastForward: the second try_push, whose error is the
\* error of the sync
TryPushAgain(h) ==
    /\ pc[h] = "again"
    /\ \/ Accepted(h, TRUE)
       \/ /\ onto[h] # rver
          /\ pc' = [pc EXCEPT ![h] = "idle"]
          /\ UNCHANGED <<remote, rver, base, unpushed, done, retried, onto>>
    /\ last' = Op("push", 0, "")
    /\ UNCHANGED <<histVarsButLast, syncs, pending>>
    /\ UNCHANGED <<connVars, lockVars, auxVars>>

\* Server::sync fails in Syncer::refresh: the fetch of Git::pull has moved
\* the upstream branch, and the pull returns an error before the rebase is
\* done (the wait of Git::fetch for the lock times out, or Git::rebase fails
\* and is aborted)
PullFails(h) ==
    /\ up[h] /\ pc[h] = "idle" /\ syncs[h] < MaxSyncs
    /\ base[h] # rver
    /\ base' = [base EXCEPT ![h] = rver]
    /\ syncs' = [syncs EXCEPT ![h] = syncs[h] + 1]
    /\ last' = Op("sync_failed", 0, "")
    /\ UNCHANGED <<up, hist, snap, tree, clock, nextId, stored, added, ops>>
    /\ UNCHANGED <<remote, rver, unpushed, pc, pending, done, retried, onto>>
    /\ UNCHANGED <<connVars, lockVars, auxVars>>

\* Message::Store on either host, also while its daemon is in a sync
StoreAny(h) ==
    /\ nextId <= MaxAdds
    /\ \E cmd \in StoreCmds \ {""}, session \in Sessions :
          StoreReq(h, cmd, "/home", session)

NextSync ==
    \E h \in Hosts :
        \/ StoreAny(h)
        \/ SyncStart(h)
        \/ PullFails(h)
        \/ TryPush(h)
        \/ RetryPull(h)
        \/ TryPushAgain(h)

SpecSync == InitSync /\ [][NextSync]_vars

----------------------------------------------------------------------------
(* One connection of a client to the daemon: Server::handle_client reads a *)
(* request, Server::handle_request serves it and writes its responses.      *)

\* enum Message, the requests
Request(kind, id, cmd) == [kind |-> kind, id |-> id, cmd |-> cmd]

ClientRequests ==
    {Request("Store", 0, "ls")}
    \cup {Request("Update", id, "pwd") : id \in Ids}
    \cup {Request(kind, 0, "") :
            kind \in {"HistoryRequest", "Ping", "Sync", "Rebuild", "Exit"}}

\* enum Message, a response, with the request the server wrote it for;
\* err: the message carries an error text (Error(String),
\* RebuildComplete(Some(String)))
Response(msg, k) == [msg |-> msg, req |-> k, err |-> msg = "Error"]

\* the k-th call of the client has returned: Connection::request returns
\* with the first message it reads, the Rebuilder with the first message
\* that is no RebuildStatus
CallDone(k) ==
    \E i \in 1..Len(got) :
        /\ got[i].call = k
        /\ sent[k].kind = "Rebuild" => got[i].msg # "RebuildStatus"

\* Connection::send of a request, by Connection::request or ::rebuild
ClientSend(req) ==
    /\ up[Self] /\ Len(sent) < MaxRequests
    /\ sent = <<>> \/ CallDone(Len(sent))
    /\ req.kind = "Update" => req.id <= nextId
    /\ sent' = Append(sent, req)
    /\ UNCHANGED <<histVars, handled, wire, got, rb>>
    /\ UNCHANGED <<gitVars, lockVars, auxVars>>

\* Connection::read_message in the client's call
ClientReceive ==
    /\ sent # <<>> /\ ~CallDone(Len(sent))
    /\ Len(got) < Len(wire)
    /\ got' = Append(got, [msg |-> wire[Len(got) + 1].msg,
                           req |-> wire[Len(got) + 1].req,
                           err |-> wire[Len(got) + 1].err,
                           call |-> Len(sent)])
    /\ UNCHANGED <<histVars, sent, handled, wire, rb>>
    /\ UNCHANGED <<gitVars, lockVars, auxVars>>

\* Server::handle_client: conn.receive() returns the next request, once
\* handle_request has returned from the one before
Received(kind) ==
    /\ up[Self] /\ handled < Len(sent)
    /\ rb.at = 0
    /\ sent[handled + 1].kind = kind
    /\ handled' = handled + 1
    /\ UNCHANGED <<sent, got>>

\* the server writes these messages for the request it is serving
Respond(msgs) ==
    wire' = wire \o [i \in 1..Len(msgs) |-> Response(msgs[i], handled + 1)]

\* a handler that leaves the History as it is
Quiet(name) ==
    /\ Step /\ last' = Op(name, 0, "")
    /\ UNCHANGED <<up, hist, snap, tree, clock, nextId, stored, added>>

\* handle_request, Message::Store
HandleStore ==
    /\ Received("Store")
    /\ DoStore(Self, sent[handled + 1].cmd, "/home", "s1")
    /\ Respond(<<"Ack">>)
    /\ UNCHANGED <<rb, gitVars, lockVars, auxVars>>

\* handle_request, Message::Update: the Error of a failed update is
\* followed by the Ack that every update gets
HandleUpdate ==
    /\ Received("Update")
    /\ LET req == sent[handled + 1]
       IN /\ DoTryUpdate(Self, req.id, req.cmd, "s1")
          /\ IF KnownId(hist[Self], req.id)
             THEN Respond(<<"Ack">>)
             ELSE Respond(<<"Error", "Ack">>)
    /\ UNCHANGED <<rb, gitVars, lockVars, auxVars>>

\* handle_request, Message::HistoryRequest
HandleHistory ==
    /\ Received("HistoryRequest")
    /\ Quiet("history")
    /\ Respond(<<"History">>)
    /\ UNCHANGED <<rb, gitVars, lockVars, auxVars>>

\* handle_request, Message::Ping
HandlePing ==
    /\ Received("Ping")
    /\ Quiet("ping")
    /\ Respond(<<"Pong">>)
    /\ UNCHANGED <<rb, gitVars, lockVars, auxVars>>

\* handle_request, Message::Sync: Server::sync succeeds, or its refresh fails
HandleSync ==
    /\ Received("Sync")
    /\ \/ DoSync(Self) /\ Respond(<<"Ack">>)
       \/ Quiet("sync_failed") /\ Respond(<<"Error">>)
    /\ UNCHANGED <<rb, gitVars, lockVars, auxVars>>

\* Connection::rebuild_complete: None for Ok, Some(text) for an error
AlwaysNone(res) == FALSE

RebuildResult(res) == res # "ok"

\* handle_request, Message::Rebuild: thread::spawn of the worker that runs
\* Server::rebuild; the handler then reads the channel until it is closed
HandleRebuild ==
    /\ Received("Rebuild")
    /\ Quiet("rebuild_request")
    /\ rb' = [at |-> 1, said |-> 0, res |-> "none"]
    /\ UNCHANGED wire
    /\ UNCHANGED <<gitVars, lockVars, auxVars>>

\* the steps of Server::rebuild at which it sends a status
StatusSteps == 1..4

\* how the code between the status `at` and the next one may end:
\* syncer.lock().unwrap(), refresh()? and history.lock().unwrap() after the
\* first, syncer.lock()? after the second, the sleep after the third,
\* sync_lock.unlock()? after the fourth
StepOutcomes(at) ==
    CASE at = 1 -> {"ok", "error", "panic"}
      [] at = 2 -> {"ok", "error"}
      [] at = 3 -> {"ok"}
      [] at = 4 -> {"ok", "error"}

\* the worker is in sender.send(status) and the handler in the `for` over
\* the receiver: the handler writes the status to the connection
RebuildStatus ==
    /\ up[Self] /\ rb.at \in StatusSteps /\ rb.said < rb.at
    /\ wire' = Append(wire, Response("RebuildStatus", handled))
    /\ rb' = [rb EXCEPT !.said = rb.at]
    /\ UNCHANGED <<histVars, sent, handled, got>>
    /\ UNCHANGED <<gitVars, lockVars, auxVars>>

\* Server::rebuild goes on to its next status, returns after the last one,
\* returns an error or panics
RebuildStep(outcome) ==
    /\ up[Self] /\ rb.at \in StatusSteps /\ rb.said = rb.at
    /\ outcome \in StepOutcomes(rb.at)
    /\ rb' = IF outcome = "ok" /\ rb.at < 4
             THEN [rb EXCEPT !.at = rb.at + 1]
             ELSE [rb EXCEPT !.at = 5, !.res = outcome]
    /\ UNCHANGED <<histVars, sent, handled, wire, got>>
    /\ UNCHANGED <<gitVars, lockVars, auxVars>>

\* the worker has ended and dropped the sender: the `for` ends, the
\* handler joins the worker and writes RebuildComplete
RebuildJoin ==
    /\ up[Self] /\ rb.at = 5
    /\ wire' = Append(wire, [Response("RebuildComplete", handled)
                               EXCEPT !.err = RebuildResult(rb.res)])
    /\ rb' = [rb EXCEPT !.at = 0]
    /\ UNCHANGED <<histVars, sent, handled, got>>
    /\ UNCHANGED <<gitVars, lockVars, auxVars>>

\* handle_request, Message::Exit(false): the Ack, sync_local, exit(0)
HandleExit ==
    /\ Received("Exit")
    /\ Step /\ last' = Op("exit", 0, "")
    /\ LET r == Save(hist[Self], tree[Self], clock[Self])
       IN /\ snap' = [snap EXCEPT ![Self] = r.snap]
          /\ tree' = [tree EXCEPT ![Self] = r.files]
          /\ clock' = [clock EXCEPT ![Self] = clock[Self] + r.ticks]
    /\ up' = [up EXCEPT ![Self] = FALSE]
    /\ hist' = [hist EXCEPT ![Self] = NoHistory(Self)]
    /\ added' = [added EXCEPT ![Self] = {}]
    /\ UNCHANGED <<nextId, stored>>
    /\ Respond(<<"Ack">>)
    /\ UNCHANGED <<rb, gitVars, lockVars, auxVars>>

NextConn ==
    \/ \E req \in ClientRequests : ClientSend(req)
    \/ ClientReceive
    \/ HandleStore
    \/ HandleUpdate
    \/ HandleHistory
    \/ HandlePing
    \/ HandleSync
    \/ HandleRebuild
    \/ RebuildStatus
    \/ \E outcome \in {"ok", "error", "panic"} : RebuildStep(outcome)
    \/ RebuildJoin
    \/ HandleExit

SpecConn == Init /\ [][NextConn]_vars

----------------------------------------------------------------------------
(* Git::fetch of this host while a peer places and removes the lock tag    *)
(* refs/tags/lock on the remote.  A lock commit is a number, 0 is no tag.   *)

\* MAX_LOCK_WAIT, in seconds
MAX_LOCK_WAIT == 300

\* Git::try_fetch(locked, _): the fetch of refs/tags/* with pruning, and the
\* update_tips callback, which sets `locked` only for a tag that the fetch
\* creates, changes or prunes.  Whether a fetch moves a local tag to another
\* commit is left open.
TryFetch(locked, local, upstream) ==
    IF upstream = local THEN {[locked |-> locked, ltag |-> local]}
    ELSE IF upstream = 0 THEN {[locked |-> FALSE, ltag |-> 0]}
    ELSE IF local = 0 THEN {[locked |-> TRUE, ltag |-> upstream]}
    ELSE {[locked |-> TRUE, ltag |-> upstream],
          [locked |-> locked, ltag |-> local]}

\* how a Git::fetch ended, with the tag the remote held at that time
Ended(result) == [result |-> result, rtag |-> rtag]

\* Git::fetch: the first try_fetch(false, None)
FetchStart ==
    /\ fpc = "idle"
    /\ \E r \in TryFetch(FALSE, ltag, rtag) :
          /\ ltag' = r.ltag
          /\ fpc' = IF r.locked THEN "wait" ELSE "idle"
          /\ fres' = IF r.locked THEN Ended("none") ELSE Ended("ok")
    /\ waited' = 0
    /\ UNCHANGED <<rtag, locks>>
    /\ UNCHANGED <<histVars, gitVars, connVars, auxVars>>

\* Git::fetch: one round of the loop, a sleep of a second and a try_fetch
FetchRetry ==
    /\ fpc = "wait" /\ waited < MAX_LOCK_WAIT
    /\ waited' = waited + 1
    /\ \E r \in TryFetch(TRUE, ltag, rtag) :
          /\ ltag' = r.ltag
          /\ fpc' = IF r.locked THEN "wait" ELSE "idle"
          /\ fres' = IF r.locked THEN Ended("none") ELSE Ended("ok")
    /\ UNCHANGED <<rtag, locks>>
    /\ UNCHANGED <<histVars, gitVars, connVars, auxVars>>

\* Git::fetch: the loop ends with the repository still locked
FetchTimeout ==
    /\ fpc = "wait" /\ waited >= MAX_LOCK_WAIT
    /\ fpc' = "idle"
    /\ fres' = Ended("error")
    /\ UNCHANGED <<rtag, locks, ltag, waited>>
    /\ UNCHANGED <<histVars, gitVars, connVars, auxVars>>

\* the daemon is killed and started again on the same repository: Git::new
DaemonRestart ==
    /\ fpc' = "idle"
    /\ waited' = 0
    /\ fres' = Ended("none")
    /\ UNCHANGED <<rtag, locks, ltag>>
    /\ UNCHANGED <<histVars, gitVars, connVars, auxVars>>

\* Git::lock on the peer: a new commit is pushed as refs/tags/lock
PeerLock ==
    /\ rtag = 0 /\ locks < MaxLocks
    /\ locks' = locks + 1
    /\ rtag' = locks + 1
    /\ UNCHANGED <<ltag, fpc, waited, fres>>
    /\ UNCHANGED <<histVars, gitVars, connVars, auxVars>>

\* Git::unlock on the peer: the tag is deleted on the remote
PeerUnlock ==
    /\ rtag # 0
    /\ rtag' = 0
    /\ UNCHANGED <<locks, ltag, fpc, waited, fres>>
    /\ UNCHANGED <<histVars, gitVars, connVars, auxVars>>

NextLock ==
    \/ FetchStart
    \/ FetchRetry
    \/ FetchTimeout
    \/ DaemonRestart
    \/ PeerLock
    \/ PeerUnlock

SpecLock == Init /\ [][NextLock]_vars

----------------------------------------------------------------------------
(* Git::lock and Git::unlock of every host on one remote.  The lock is the  *)
(* tag refs/tags/lock; a host that has locked holds a GitGuard until        *)
(* Server::rebuild has called unlock and dropped it.                        *)

\* a push of "+<commit>:refs/tags/lock": the remote takes the commit
ForcePushTag(upstream, commit) == [ok |-> TRUE, tag |-> commit]

\* the push of "<commit>:refs/tags/lock" in Git::lock, a refspec without
\* "+": the lock commit has no parent, so it is a fast-forward of nothing,
\* and the remote takes it only if it holds no such tag
PushTag(upstream, commit) ==
    IF upstream = 0 THEN [ok |-> TRUE, tag |-> commit]
    ELSE [ok |-> FALSE, tag |-> upstream]

\* the push of ":refs/tags/lock" in Git::unlock
DeleteTag(upstream) == [ok |-> TRUE, tag |-> 0]

\* a push that does not reach the remote
PushLost(upstream) == [ok |-> FALSE, tag |-> upstream]

\* Git::lock on host h: a new commit, pushed as the tag; the GitGuard is
\* returned only if the push succeeded
Lock(h) ==
    /\ guard[h] = 0 /\ locks < MaxLocks
    /\ locks' = locks + 1
    /\ \E r \in {PushTag(rtag, locks + 1), PushLost(rtag)} :
          /\ rtag' = r.tag
          /\ guard' = [guard EXCEPT ![h] = IF r.ok THEN locks + 1 ELSE 0]
          /\ lres' = [host |-> h, result |-> IF r.ok THEN "ok" ELSE "error",
                      before |-> rtag, after |-> r.tag]
    /\ UNCHANGED <<ltag, fpc, waited, fres>>
    /\ UNCHANGED <<histVars, gitVars, connVars, auxButGuard>>

\* GitGuard::unlock on host h, and the drop of the guard in Server::rebuild,
\* which follows whether the push of the deletion succeeded or not
Unlock(h) ==
    /\ guard[h] # 0
    /\ \E r \in {DeleteTag(rtag), PushLost(rtag)} : rtag' = r.tag
    /\ guard' = [guard EXCEPT ![h] = 0]
    /\ UNCHANGED <<lres, locks, ltag, fpc, waited, fres>>
    /\ UNCHANGED <<histVars, gitVars, connVars, auxButGuard>>

NextTag ==
    \/ \E h \in Hosts : Lock(h)
    \/ \E h \in Hosts : Unlock(h)
    \/ FetchStart
    \/ FetchRetry
    \/ FetchTimeout

SpecTag == Init /\ [][NextTag]_vars

----------------------------------------------------------------------------
(* The threads of one daemon and the two mutexes of struct Server.  A job   *)
(* is the list of the steps its code takes on the mutexes, in order; a      *)
(* thread is at one step of its job.                                        *)

Acq(m) == [op |-> "acquire", what |-> m]
Rel(m) == [op |-> "release", what |-> m]
Net(x) == [op |-> "net", what |-> x]
Work(x) == [op |-> "work", what |-> x]

\* Server::store, Server::update, Server::history: the history mutex alone
HistoryJob == <<Acq("history"), Work("history"), Rel("history")>>

\* a sync that keeps the history mutex until push_changes has returned
SyncHoldsHistory ==
    <<Acq("syncer"), Net("refresh"), Acq("history"), Work("history_sync"),
      Net("push_changes"), Rel("history"), Rel("syncer")>>

\* Server::sync and Server::sync_local: the syncer mutex, refresh, the
\* history mutex for History::sync or ::save, then push_changes
SyncJob ==
    <<Acq("syncer"), Net("refresh"), Acq("history"), Work("history_sync"),
      Rel("history"), Net("push_changes"), Rel("syncer")>>

\* a rebuild that takes the history mutex before the syncer mutex
RebuildHistoryFirst ==
    <<Acq("history"), Acq("syncer"), Net("refresh"), Net("lock"),
      Work("sleep"), Net("unlock"), Rel("history"), Rel("syncer")>>

\* Server::rebuild: the syncer mutex, refresh, the history mutex, then
\* Syncer::lock, the sleep of 5 s and LockedSyncer::unlock with both held
RebuildJob ==
    <<Acq("syncer"), Net("refresh"), Acq("history"), Net("lock"),
      Work("sleep"), Net("unlock"), Rel("history"), Rel("syncer")>>

\* handle_request: the steps of each request, of the background sync and of
\* the signal handler
Program(j) ==
    CASE j \in {"Store", "Update", "HistoryRequest"} -> HistoryJob
      [] j \in {"Sync", "Background"} -> SyncJob
      [] j = "Exit" ->
            <<Work("ack"), Work("remove_socket")>> \o SyncJob \o <<Work("exit")>>
      [] j = "ExitNoSync" ->
            <<Work("ack"), Work("remove_socket"), Work("exit")>>
      [] j = "Signal" -> SyncJob \o <<Work("exit")>>
      [] j = "Rebuild" -> <<Work("spawn"), Work("join")>>
      [] j = "rebuild" -> RebuildJob
      [] OTHER -> <<>>

\* the jobs a thread may start by itself
JobsOf(t) ==
    CASE t \in {"conn1", "conn2"} ->
            {"Store", "Update", "HistoryRequest", "Sync", "Rebuild", "Exit",
             "ExitNoSync"}
      [] t = "background" -> {"Background"}
      [] t = "signal" -> {"Signal"}
      [] OTHER -> {}

\* the worker that a connection handler spawns for Message::Rebuild
WorkerOf(t) == IF t = "conn1" THEN "worker1" ELSE "worker2"

\* the step thread t is at
Current(t) ==
    IF tpc[t] = 0 THEN [op |-> "idle", what |-> ""] ELSE Program(job[t])[tpc[t]]

\* the mutexes thread t holds
Held(t) == {m \in Mutexes : owner[m] = t}

\* thread t goes on to the next step of its job, or has finished it
Advance(t) ==
    IF tpc[t] < Len(Program(job[t]))
    THEN /\ tpc' = [tpc EXCEPT ![t] = tpc[t] + 1]
         /\ job' = job
    ELSE /\ tpc' = [tpc EXCEPT ![t] = 0]
         /\ job' = [job EXCEPT ![t] = "none"]

\* the function returns early with an error: its guards are dropped.  The
\* Exit request and the signal handler log the error and go on to exit(0).
Return(t) ==
    /\ owner' = [m \in Mutexes |-> IF owner[m] = t THEN "none" ELSE owner[m]]
    /\ IF job[t] \in {"Exit", "Signal"}
       THEN /\ tpc' = [tpc EXCEPT ![t] = Len(Program(job[t]))]
            /\ job' = job
       ELSE /\ tpc' = [tpc EXCEPT ![t] = 0]
            /\ job' = [job EXCEPT ![t] = "none"]

\* a thread starts a job: a request read by handle_client, the next round
\* of background_sync, a signal
Begin(t, j) ==
    /\ running /\ tpc[t] = 0 /\ j \in JobsOf(t)
    /\ job' = [job EXCEPT ![t] = j]
    /\ tpc' = [tpc EXCEPT ![t] = 1]
    /\ UNCHANGED <<running, owner>>
    /\ UNCHANGED <<histVars, gitVars, connVars, lockVars, auxButMutex>>

\* Mutex::lock returns
Acquire(t) ==
    /\ running /\ Current(t).op = "acquire"
    /\ owner[Current(t).what] = "none"
    /\ owner' = [owner EXCEPT ![Current(t).what] = t]
    /\ Advance(t)
    /\ UNCHANGED running
    /\ UNCHANGED <<histVars, gitVars, connVars, lockVars, auxButMutex>>

\* a MutexGuard is dropped
Release(t) ==
    /\ running /\ Current(t).op = "release"
    /\ owner' = [owner EXCEPT ![Current(t).what] = "none"]
    /\ Advance(t)
    /\ UNCHANGED running
    /\ UNCHANGED <<histVars, gitVars, connVars, lockVars, auxButMutex>>

\* a git network operation of the Syncer returns ok
NetDone(t) ==
    /\ running /\ Current(t).op = "net"
    /\ Advance(t)
    /\ UNCHANGED <<running, owner>>
    /\ UNCHANGED <<histVars, gitVars, connVars, lockVars, auxButMutex>>

\* a git network operation of the Syncer returns an error
NetFail(t) ==
    /\ running /\ Current(t).op = "net"
    /\ Return(t)
    /\ UNCHANGED running
    /\ UNCHANGED <<histVars, gitVars, connVars, lockVars, auxButMutex>>

\* a step without a mutex operation: the History call, the sleep, the Ack
LocalStep(t) ==
    /\ running /\ Current(t).op = "work"
    /\ Current(t).what \notin {"spawn", "join", "exit"}
    /\ Advance(t)
    /\ UNCHANGED <<running, owner>>
    /\ UNCHANGED <<histVars, gitVars, connVars, lockVars, auxButMutex>>

\* History::sync or History::save returns an error
HistoryFail(t) ==
    /\ running /\ Current(t) = Work("history_sync")
    /\ Return(t)
    /\ UNCHANGED running
    /\ UNCHANGED <<histVars, gitVars, connVars, lockVars, auxButMutex>>

\* Message::Rebuild: thread::spawn of the worker
Spawn(t) ==
    /\ running /\ Current(t) = Work("spawn")
    /\ job' = [job EXCEPT ![WorkerOf(t)] = "rebuild"]
    /\ tpc' = [tpc EXCEPT ![t] = tpc[t] + 1, ![WorkerOf(t)] = 1]
    /\ UNCHANGED <<running, owner>>
    /\ UNCHANGED <<histVars, gitVars, connVars, lockVars, auxButMutex>>

\* Message::Rebuild: the receiver is closed and worker.join() returns
Join(t) ==
    /\ running /\ Current(t) = Work("join")
    /\ tpc[WorkerOf(t)] = 0
    /\ Advance(t)
    /\ UNCHANGED <<running, owner>>
    /\ UNCHANGED <<histVars, gitVars, connVars, lockVars, auxButMutex>>

\* exit(0): the process ends with all its threads
ExitProcess(t) ==
    /\ running /\ Current(t) = Work("exit")
    /\ running' = FALSE
    /\ UNCHANGED <<job, tpc, owner>>
    /\ UNCHANGED <<histVars, gitVars, connVars, lockVars, auxButMutex>>

NextMutex ==
    \/ \E t \in Threads : \E j \in JobsOf(t) : Begin(t, j)
    \/ \E t \in Threads : Acquire(t)
    \/ \E t \in Threads : Release(t)
    \/ \E t \in Threads : NetDone(t)
    \/ \E t \in Threads : NetFail(t)
    \/ \E t \in Threads : LocalStep(t)
    \/ \E t \in Threads : HistoryFail(t)
    \/ \E t \in Threads : Spawn(t)
    \/ \E t \in Threads : Join(t)
    \/ \E t \in Threads : ExitProcess(t)

SpecMutex == Init /\ [][NextMutex]_vars

----------------------------------------------------------------------------
(* One daemon with the git backend: Server::sync for Message::Sync and the  *)
(* background sync, Server::sync_local for Message::Exit and for the first  *)
(* TERM, INT or HUP signal.  A call takes the syncer mutex, so one call     *)
(* runs at a time; Store requests and pushes of a peer come in between its   *)
(* steps.  Every step that the code ends with `?` can fail.                 *)

\* a handler that answers Ack whatever sync returned
AlwaysAck(ok) == "Ack"

\* handle_request, Message::Sync: Error if sync failed, else Ack
SyncResponse(ok) == IF ok THEN "Ack" ELSE "Error"

\* Git::push: the error codes of the first try_push that lead to a pull and
\* a second try_push
ShouldRetry(code) == code = "NotFastForward"

\* sync_local is the variant of sync that exit and the signal thread call
Exiting == sreq.kind \in {"exit", "signal"}

\* what the daemon does for a request: a response sent, or the exit of the
\* process
LogEntry(kind, force, resp, p) ==
    [kind |-> kind, force |-> force, resp |-> resp, prog |-> p]

\* every entry this daemon has added is in a day file of hosts/<self>/
AllSaved(files) == added[Self] \subseteq DirEntries(DirOf(files, Self))

\* the call of sync or sync_local returns with progress p: handle_request
\* answers a Sync request; after sync_local the process exits
Finish(ok, p) ==
    /\ pc' = [pc EXCEPT ![Self] = "idle"]
    /\ prog' = p
    /\ sreq' = [kind |-> "none", force |-> FALSE]
    /\ IF Exiting
       THEN /\ up' = [up EXCEPT ![Self] = FALSE]
            /\ hist' = [hist EXCEPT ![Self] = NoHistory(Self)]
            /\ added' = [added EXCEPT ![Self] = {}]
            /\ sresp' = <<LogEntry(sreq.kind, sreq.force, "exit", p)>>
       ELSE /\ sresp' = <<LogEntry(sreq.kind, sreq.force, SyncResponse(ok), p)>>
            /\ UNCHANGED <<up, hist, added>>

\* the call goes on to its next step
Continue(next, p) ==
    /\ pc' = [pc EXCEPT ![Self] = next]
    /\ prog' = p
    /\ UNCHANGED <<sreq, sresp, up, added>>

\* handle_request reads Message::Sync(force) and calls Server::sync
SyncRequest(force) ==
    /\ up[Self] /\ pc[Self] = "idle" /\ syncs[Self] < MaxSyncs
    /\ sreq' = [kind |-> "sync", force |-> force]
    /\ prog' = NoProgress
    /\ pc' = [pc EXCEPT ![Self] = "refresh"]
    /\ syncs' = [syncs EXCEPT ![Self] = syncs[Self] + 1]
    /\ sresp' = <<>>
    /\ UNCHANGED <<histVars, remote, rver, base, unpushed, pending, done, retried>>
    /\ UNCHANGED <<head, onto>>
    /\ UNCHANGED <<connVars, lockVars, auxButPush, listening>>

\* handle_request reads Message::Exit(no_sync): the Ack, remove_socket, and
\* then either exit(0) or sync_local(false)
ExitRequest(no_sync) ==
    /\ up[Self] /\ pc[Self] = "idle"
    /\ sresp' = <<LogEntry("exit", FALSE, "Ack", NoProgress)>>
                 \o (IF no_sync
                     THEN <<LogEntry("exit_no_sync", FALSE, "exit", NoProgress)>>
                     ELSE <<>>)
    /\ prog' = NoProgress
    /\ IF no_sync
       THEN /\ up' = [up EXCEPT ![Self] = FALSE]
            /\ hist' = [hist EXCEPT ![Self] = NoHistory(Self)]
            /\ added' = [added EXCEPT ![Self] = {}]
            /\ UNCHANGED <<sreq, pc>>
       ELSE /\ sreq' = [kind |-> "exit", force |-> FALSE]
            /\ pc' = [pc EXCEPT ![Self] = "refresh"]
            /\ UNCHANGED <<up, hist, added>>
    /\ UNCHANGED <<snap, tree, clock, nextId, stored, last, ops>>
    /\ UNCHANGED <<remote, rver, base, unpushed, syncs, pending, done, retried>>
    /\ UNCHANGED <<head, onto>>
    /\ listening' = FALSE
    /\ UNCHANGED <<connVars, lockVars, auxButPush>>

\* the signal thread receives the first TERM, INT or HUP and calls
\* sync_local(false)
Signal ==
    /\ up[Self] /\ pc[Self] = "idle"
    /\ sreq' = [kind |-> "signal", force |-> FALSE]
    /\ prog' = NoProgress
    /\ pc' = [pc EXCEPT ![Self] = "refresh"]
    /\ sresp' = <<>>
    /\ UNCHANGED <<histVars, remote, rver, base, unpushed, syncs, pending, done, retried>>
    /\ UNCHANGED <<head, onto>>
    /\ UNCHANGED <<connVars, lockVars, auxButPush, listening>>

\* Git::rebase: the commits of the branch are replayed on the upstream
Rebase ==
    /\ tree' = [tree EXCEPT ![Self] = Pull(tree[Self], remote, Self)]
    /\ head' = Pull(head, remote, Self)
    /\ onto' = [onto EXCEPT ![Self] = rver]

\* a pull whose failed rebase is not aborted: the working tree is left with
\* the files of the upstream, the commits of the branch not replayed
GitPullNoAbort(next, p) ==
    \/ /\ Finish(FALSE, prog)
       /\ UNCHANGED <<tree, base, head, onto>>
    \/ /\ base[Self] # rver
       /\ base' = [base EXCEPT ![Self] = rver]
       /\ \/ /\ Rebase
             /\ Continue(next, p)
             /\ UNCHANGED hist
          \/ /\ Finish(FALSE, prog)
             /\ tree' = [tree EXCEPT ![Self] = remote]
             /\ UNCHANGED <<head, onto>>
    \/ /\ base[Self] = rver
       /\ Continue(next, p)
       /\ UNCHANGED <<hist, tree, base, head, onto>>

\* Git::pull: fetch, which can fail, and a rebase if the fetch moved the
\* upstream branch, which can fail too
GitPull(next, p) ==
    \/ /\ Finish(FALSE, prog)
       /\ UNCHANGED <<tree, base, head, onto>>
    \/ /\ base[Self] # rver
       /\ base' = [base EXCEPT ![Self] = rver]
       /\ \/ /\ Rebase
             /\ Continue(next, p)
             /\ UNCHANGED hist
          \/ /\ Finish(FALSE, prog)
             /\ UNCHANGED <<tree, head, onto>>
    \/ /\ base[Self] = rver
       /\ Continue(next, p)
       /\ UNCHANGED <<hist, tree, base, head, onto>>

\* Syncer::refresh of Server::sync and Server::sync_local
Refresh ==
    /\ pc[Self] = "refresh"
    /\ GitPull("history", [prog EXCEPT !.refreshed = TRUE])
    /\ UNCHANGED <<snap, clock, nextId, stored, last, ops>>
    /\ UNCHANGED <<remote, rver, unpushed, syncs, pending, done, retried>>
    /\ UNCHANGED <<connVars, lockVars, auxButPush, listening>>

\* History::sync in Server::sync, History::save in Server::sync_local
HistoryWrite ==
    /\ pc[Self] = "history"
    /\ \/ LET r == IF Exiting THEN Save(hist[Self], tree[Self], clock[Self])
                   ELSE Sync(hist[Self], tree[Self], clock[Self])
          IN /\ hist' = [hist EXCEPT ![Self] = r.H]
             /\ snap' = [snap EXCEPT ![Self] = r.snap]
             /\ tree' = [tree EXCEPT ![Self] = r.files]
             /\ clock' = [clock EXCEPT ![Self] = clock[Self] + r.ticks]
             /\ Continue("commit", [prog EXCEPT !.written = TRUE,
                                                !.saved = AllSaved(r.files)])
       \/ /\ Finish(FALSE, prog)
          /\ UNCHANGED <<snap, tree, clock>>
    /\ UNCHANGED <<nextId, stored, last, ops>>
    /\ UNCHANGED <<remote, rver, base, unpushed, syncs, pending, done, retried>>
    /\ UNCHANGED <<head, onto>>
    /\ UNCHANGED <<connVars, lockVars, auxButPush, listening>>

\* Syncer::push_changes up to the push: add_all, commit (a commit is made
\* if the tree differs from the tip's or force is set), unpushed_changes
CommitChanges ==
    /\ pc[Self] = "commit"
    /\ \/ LET made == Tracked(tree[Self]) # head \/ sreq.force
              ahead == unpushed[Self] \/ made
              need == ahead \/ sreq.force
              p == [prog EXCEPT !.committed = TRUE, !.need = need]
          IN /\ head' = IF made THEN Tracked(tree[Self]) ELSE head
             /\ unpushed' = [unpushed EXCEPT ![Self] = ahead]
             /\ IF need
                THEN Continue("push", p) /\ UNCHANGED hist
                ELSE Finish(TRUE, p)
       \/ /\ Finish(FALSE, prog)
          /\ UNCHANGED <<head, unpushed>>
    /\ UNCHANGED <<snap, tree, clock, nextId, stored, last, ops>>
    /\ UNCHANGED <<remote, rver, base, syncs, pending, done, retried>>
    /\ UNCHANGED onto
    /\ UNCHANGED <<connVars, lockVars, auxButPush, listening>>

\* Git::try_push: the remote takes the branch if it descends from the
\* remote head; otherwise the push is NotFastForward; any push can fail
\* for another reason
PushResult(code) ==
    \/ /\ code = "ok"
       /\ onto[Self] = rver
       /\ remote' = head
       /\ rver' = rver + 1
       /\ base' = [base EXCEPT ![Self] = rver + 1]
       /\ onto' = [onto EXCEPT ![Self] = rver + 1]
       /\ unpushed' = [unpushed EXCEPT ![Self] = FALSE]
    \/ /\ code = "NotFastForward"
       /\ onto[Self] # rver
       /\ UNCHANGED <<remote, rver, base, onto, unpushed>>
    \/ /\ code = "Network"
       /\ UNCHANGED <<remote, rver, base, onto, unpushed>>

PushCodes == {"ok", "NotFastForward", "Network"}

\* Git::push, the first try_push
FirstPush ==
    /\ pc[Self] = "push"
    /\ \E code \in PushCodes :
          /\ PushResult(code)
          /\ LET p == [prog EXCEPT !.attempts = prog.attempts + 1,
                                   !.first = code,
                                   !.pushed = (code = "ok")]
             IN IF code = "ok" THEN Finish(TRUE, p)
                ELSE IF ShouldRetry(code)
                     THEN Continue("pull", p) /\ UNCHANGED hist
                     ELSE Finish(FALSE, p)
    /\ UNCHANGED <<snap, tree, clock, nextId, stored, last, ops>>
    /\ UNCHANGED <<syncs, pending, done, retried>>
    /\ UNCHANGED head
    /\ UNCHANGED <<connVars, lockVars, auxButPush, listening>>

\* Git::push after the first try_push was rejected: self.pull()?
PullAfterReject ==
    /\ pc[Self] = "pull"
    /\ GitPull("again", [prog EXCEPT !.pulled = TRUE])
    /\ UNCHANGED <<snap, clock, nextId, stored, last, ops>>
    /\ UNCHANGED <<remote, rver, unpushed, syncs, pending, done, retried>>
    /\ UNCHANGED <<connVars, lockVars, auxButPush, listening>>

\* Git::push after the pull: the second try_push, whose result is the
\* result of push
SecondPush ==
    /\ pc[Self] = "again"
    /\ \E code \in PushCodes :
          /\ PushResult(code)
          /\ Finish(code = "ok", [prog EXCEPT !.attempts = prog.attempts + 1,
                                              !.pushed = (code = "ok")])
    /\ UNCHANGED <<snap, tree, clock, nextId, stored, last, ops>>
    /\ UNCHANGED <<syncs, pending, done, retried>>
    /\ UNCHANGED head
    /\ UNCHANGED <<connVars, lockVars, auxButPush, listening>>

\* a peer pushes a commit of its own (`vellum sync --force` on the peer)
PeerPush ==
    /\ rver < MaxPushes
    /\ rver' = rver + 1
    /\ UNCHANGED histVars
    /\ UNCHANGED <<remote, base, unpushed, pc, syncs, pending, done, retried, onto>>
    /\ UNCHANGED <<connVars, lockVars, auxVars>>

\* Message::Store served while a sync is between two of its steps
StoreDuringSync ==
    /\ nextId <= MaxStores
    /\ StoreReq(Self, "ls", "/home", "s1")

NextPush ==
    \/ \E force \in BOOLEAN : SyncRequest(force)
    \/ \E no_sync \in BOOLEAN : ExitRequest(no_sync)
    \/ Signal
    \/ Refresh
    \/ HistoryWrite
    \/ CommitChanges
    \/ FirstPush
    \/ PullAfterReject
    \/ SecondPush
    \/ PeerPush
    \/ StoreDuringSync

SpecPush == Init /\ [][NextPush]_vars

----------------------------------------------------------------------------
(* Processes that run start() on one state directory.  server.pid is locked *)
(* with flock through fd_lock::RwLock: the kernel gives the lock to one     *)
(* open file at a time and takes it back when the process ends.             *)

\* an open that truncates the file (File::create)
OpenTruncate(content) == ""

\* File::options().create(true).write(true).open(server.pid): the content
\* of the file after the open; a new file is empty
OpenPidFile(content) == IF content = "absent" THEN "" ELSE content

\* the positions of start() at which the process holds the lock
Holding == {"locked", "written", "cleaned", "loaded", "serving", "exiting"}

\* the process ends: the kernel releases its lock
EndProcess(p, at) ==
    /\ ppc' = [ppc EXCEPT ![p] = at]
    /\ pidLock' = IF pidLock = p THEN "none" ELSE pidLock

\* start(): the pid file is opened, and created if it is not there
OpenPid(p) ==
    /\ ppc[p] \in {"off", "refused"}
    /\ ppc' = [ppc EXCEPT ![p] = "opened"]
    /\ pidFile' = OpenPidFile(pidFile)
    /\ writes' = [writes EXCEPT ![p] =
                     IF pidFile # "absent" /\ pidFile' # pidFile
                     THEN {"server.pid"} ELSE {}]
    /\ UNCHANGED <<pidLock, sock>>
    /\ UNCHANGED <<histVars, gitVars, connVars, lockVars, auxButPid>>

\* start(): f.try_write()?, which fails while another open file holds the
\* lock; start returns the error and the process ends
TryWrite(p) ==
    /\ ppc[p] = "opened"
    /\ IF pidLock = "none"
       THEN /\ pidLock' = p
            /\ ppc' = [ppc EXCEPT ![p] = "locked"]
       ELSE /\ ppc' = [ppc EXCEPT ![p] = "refused"]
            /\ UNCHANGED pidLock
    /\ UNCHANGED <<pidFile, sock, writes>>
    /\ UNCHANGED <<histVars, gitVars, connVars, lockVars, auxButPid>>

\* start(): set_len(0), write!(pid), flush
WritePid(p) ==
    /\ ppc[p] = "locked"
    /\ ppc' = [ppc EXCEPT ![p] = "written"]
    /\ pidFile' = p
    /\ writes' = [writes EXCEPT ![p] = writes[p] \cup {"server.pid"}]
    /\ UNCHANGED <<pidLock, sock>>
    /\ UNCHANGED <<histVars, gitVars, connVars, lockVars, auxButPid>>

\* start(): the socket file of an earlier server is removed
RemoveOldSocket(p) ==
    /\ ppc[p] = "written"
    /\ ppc' = [ppc EXCEPT ![p] = "cleaned"]
    /\ sock' = "none"
    /\ writes' = [writes EXCEPT ![p] =
                     IF sock # "none" THEN writes[p] \cup {"server.sock"}
                     ELSE writes[p]]
    /\ UNCHANGED <<pidLock, pidFile>>
    /\ UNCHANGED <<histVars, gitVars, connVars, lockVars, auxButPid>>

\* start(): Server::new, which refreshes the sync directory and loads the
\* history with the snapshot; an error ends the process
NewServer(p) ==
    /\ ppc[p] = "cleaned"
    /\ writes' = [writes EXCEPT ![p] = writes[p] \cup {"history.chunk"}]
    /\ \/ /\ ppc' = [ppc EXCEPT ![p] = "loaded"]
          /\ UNCHANGED pidLock
       \/ EndProcess(p, "off")
    /\ UNCHANGED <<pidFile, sock>>
    /\ UNCHANGED <<histVars, gitVars, connVars, lockVars, auxButPid>>

\* Server::serve: Listener::new binds server.sock, which fails if the path
\* exists
Serve(p) ==
    /\ ppc[p] = "loaded"
    /\ IF sock = "none"
       THEN /\ sock' = p
            /\ writes' = [writes EXCEPT ![p] = writes[p] \cup {"server.sock"}]
            /\ ppc' = [ppc EXCEPT ![p] = "serving"]
            /\ UNCHANGED pidLock
       ELSE /\ EndProcess(p, "off")
            /\ UNCHANGED <<sock, writes>>
    /\ UNCHANGED pidFile
    /\ UNCHANGED <<histVars, gitVars, connVars, lockVars, auxButPid>>

\* handle_request, Message::Exit: the socket is removed, then sync_local
\* runs while the process still holds the lock
ExitUnlink(p) ==
    /\ ppc[p] = "serving"
    /\ ppc' = [ppc EXCEPT ![p] = "exiting"]
    /\ sock' = "none"
    /\ UNCHANGED <<pidLock, pidFile, writes>>
    /\ UNCHANGED <<histVars, gitVars, connVars, lockVars, auxButPid>>

\* handle_request, Message::Exit: exit(0)
ExitDone(p) ==
    /\ ppc[p] = "exiting"
    /\ EndProcess(p, "off")
    /\ UNCHANGED <<pidFile, sock, writes>>
    /\ UNCHANGED <<histVars, gitVars, connVars, lockVars, auxButPid>>

\* the process is killed, or exits on a signal: the socket file stays
Die(p) ==
    /\ ppc[p] \in Holding \cup {"opened"}
    /\ EndProcess(p, "off")
    /\ UNCHANGED <<pidFile, sock, writes>>
    /\ UNCHANGED <<histVars, gitVars, connVars, lockVars, auxButPid>>

NextPid ==
    \E p \in Procs :
        \/ OpenPid(p)
        \/ TryWrite(p)
        \/ WritePid(p)
        \/ RemoveOldSocket(p)
        \/ NewServer(p)
        \/ Serve(p)
        \/ ExitUnlink(p)
        \/ ExitDone(p)
        \/ Die(p)

SpecPid == Init /\ [][NextPid]_vars

----------------------------------------------------------------------------
(* Several clients connected to one daemon: Server::serve spawns a thread  *)
(* that runs Server::handle_client for each connection; Server::store,     *)
(* ::update and ::history hold the history mutex for their whole call.     *)

\* the session of the shell that uses a connection
SessionOf(c) == IF c = "c1" THEN "s1" ELSE "s2"

ClientFrames ==
    {Frame("Store", 0, cmd) : cmd \in StoreCmds}
    \cup {Frame("Update", 1, cmd) : cmd \in UpdateCmds}
    \cup {Frame(kind, 0, "") : kind \in {"HistoryRequest", "Sync", "Ack", "garbage"}}

\* the arms of the match in handle_request that are requests
RequestKinds == {"Store", "Update", "HistoryRequest", "Sync"}

\* a decoder that takes only requests
RequestsOnly(frame) ==
    IF frame.kind \in RequestKinds THEN "request" ELSE "error"

\* Connection::receive on a frame: rmp_serde::from_slice decodes every
\* Message, request or not, and fails on other bytes
Decode(frame) ==
    IF frame.kind = "garbage" THEN "error" ELSE "request"

\* Server::serve: listener.incoming() yields a connection, thread::spawn of
\* handle_client
Accept(c) ==
    /\ up[Self] /\ cst[c] = "none"
    /\ cst' = [cst EXCEPT ![c] = "open"]
    /\ UNCHANGED <<cin, cres, clast, acked, wanted, erred, frames>>
    /\ UNCHANGED <<histVars, gitVars, connVars, lockVars, auxButClient>>

\* the client writes a frame, once it has read the answers to the last one;
\* with a HistoryRequest it expects the entries acknowledged until now
ClientWrite(c, frame) ==
    /\ cst[c] = "open" /\ cin[c] = NoFrame /\ cres[c] = <<>>
    /\ frames < MaxFrames
    /\ frame.kind = "Update" => frame.id <= nextId
    /\ cin' = [cin EXCEPT ![c] = frame]
    /\ frames' = frames + 1
    /\ wanted' = [wanted EXCEPT ![c] =
                    IF frame.kind = "HistoryRequest" THEN acked ELSE wanted[c]]
    /\ UNCHANGED <<cst, cres, clast, acked, erred>>
    /\ UNCHANGED <<histVars, gitVars, connVars, lockVars, auxButClient>>

\* handle_client: conn.receive() returns Ok(Some(req)) with a frame of
\* this kind; handle_request will write `answers`
ServeRequest(c, kinds, answers) ==
    /\ up[Self] /\ cst[c] = "open"
    /\ cin[c] # NoFrame /\ Decode(cin[c]) = "request"
    /\ cin[c].kind \in kinds
    /\ cin' = [cin EXCEPT ![c] = NoFrame]
    /\ cres' = [cres EXCEPT ![c] = answers]
    /\ UNCHANGED <<cst, clast, acked, wanted, erred, frames>>
    /\ UNCHANGED <<gitVars, connVars, lockVars, auxButClient>>

\* handle_request, Message::Store: Server::store, then the Ack
ServeStore(c) ==
    /\ ServeRequest(c, {"Store"}, <<Answer("Ack", nextId, <<>>)>>)
    /\ DoStore(Self, cin[c].cmd, "", SessionOf(c))

\* handle_request, Message::Update: Server::update; its error is sent, and
\* then the Ack that every Update gets
ServeUpdate(c) ==
    /\ ServeRequest(c, {"Update"},
                    IF KnownId(hist[Self], cin[c].id)
                    THEN <<Answer("Ack", 0, <<>>)>>
                    ELSE <<Answer("Error", 0, <<>>), Answer("Ack", 0, <<>>)>>)
    /\ DoTryUpdate(Self, cin[c].id, cin[c].cmd, SessionOf(c))

\* handle_request, Message::HistoryRequest: Server::history clones merged
ServeHistory(c) ==
    /\ ServeRequest(c, {"HistoryRequest"}, <<Answer("History", 0, hist[Self].merged)>>)
    /\ Quiet("history")

\* handle_request, Message::Sync: Server::sync returns Ok, or its refresh
\* returns an error
ServeSync(c) ==
    \/ ServeRequest(c, {"Sync"}, <<Answer("Ack", 0, <<>>)>>) /\ DoSync(Self)
    \/ ServeRequest(c, {"Sync"}, <<Answer("Error", 0, <<>>)>>) /\ Quiet("sync_failed")

\* handle_request, the last arm: a Message that is no request
ServeUnknown(c) ==
    /\ ServeRequest(c, {"Ack"}, <<Answer("Error", 0, <<>>)>>)
    /\ Quiet("unknown_request")

\* Connection::send of the next message handle_request has for the client
WriteAnswer(c) ==
    /\ up[Self] /\ cst[c] = "open" /\ cres[c] # <<>>
    /\ LET a == Head(cres[c])
       IN /\ clast' = [clast EXCEPT ![c] = a]
          /\ acked' = IF a.msg = "Ack" /\ a.id # 0
                      THEN acked \cup {a.id} ELSE acked
          /\ erred' = [erred EXCEPT ![c] = erred[c] \/ a.msg = "Error"]
    /\ cres' = [cres EXCEPT ![c] = Tail(cres[c])]
    /\ UNCHANGED <<cst, cin, wanted, frames>>
    /\ UNCHANGED <<histVars, gitVars, connVars, lockVars, auxButClient>>

\* handle_client: conn.receive() returns Err for a frame that is no Message
\* and the thread returns
ReceiveFails(c) ==
    /\ up[Self] /\ cst[c] = "open"
    /\ cin[c] # NoFrame /\ Decode(cin[c]) = "error"
    /\ cst' = [cst EXCEPT ![c] = "failed"]
    /\ UNCHANGED <<cin, cres, clast, acked, wanted, erred, frames>>
    /\ UNCHANGED <<histVars, gitVars, connVars, lockVars, auxButClient>>

\* the client closes its connection: conn.receive() returns Ok(None) and
\* the thread returns
Disconnect(c) ==
    /\ cst[c] = "open" /\ cin[c] = NoFrame /\ cres[c] = <<>>
    /\ cst' = [cst EXCEPT ![c] = "eof"]
    /\ UNCHANGED <<cin, cres, clast, acked, wanted, erred, frames>>
    /\ UNCHANGED <<histVars, gitVars, connVars, lockVars, auxButClient>>

NextClients ==
    \E c \in Conns :
        \/ Accept(c)
        \/ \E frame \in ClientFrames : ClientWrite(c, frame)
        \/ ServeStore(c)
        \/ ServeUpdate(c)
        \/ ServeHistory(c)
        \/ ServeSync(c)
        \/ ServeUnknown(c)
        \/ WriteAnswer(c)
        \/ ReceiveFails(c)
        \/ Disconnect(c)

SpecClients == Init /\ [][NextClients]_vars

----------------------------------------------------------------------------
(* Properties *)

\* History::history
history(h) == hist[h].merged

\* the list holds an entry with this id and this command
Holds(list, id, cmd) ==
    \E i \in 1..Len(list) : list[i].id = id /\ list[i].cmd = cmd

\* C1: crash recovery.  Whenever the daemon runs, also after it was killed
\* at any instant and started again on the same state and sync directories,
\* history() holds an entry with the id and the command of every Store of
\* a command that was acknowledged.
C1_CrashRecovery ==
    up[Self] =>
        \A s \in stored : s[2] # "" => Holds(history(Self), s[1], s[2])

\* the entries with this id in the chunks of every host
EntriesOf(h, id) == {e \in Range(AllEntries(hist[h].history)) : e.id = id}

\* the positions of history() that hold this id
Positions(list, id) == {i \in 1..Len(list) : list[i].id = id}

IsLeast(e, S) == e \in S /\ \A x \in S : EntryLeq(e, x)
IsGreatest(e, S) == e \in S /\ \A x \in S : EntryLeq(x, e)

\* C2: for every id that occurs in a chunk of any host, history() has at
\* most one entry with that id; it has one exactly when the greatest entry
\* with that id, in the order (ts, host, cmd, path), has a non-empty
\* command; and that entry is the least entry with that id, with the
\* command of the greatest.
C2_MergedView ==
    up[Self] =>
        \A id \in Ids :
            LET S == EntriesOf(Self, id)
                at == Positions(history(Self), id)
            IN S # {} =>
                /\ Cardinality(at) <= 1
                /\ at # {} <=> \E g \in S : IsGreatest(g, S) /\ g.cmd # ""
                /\ \A i \in at : \E l \in S, g \in S :
                      /\ IsLeast(l, S) /\ IsGreatest(g, S)
                      /\ history(Self)[i] = [l EXCEPT !.cmd = g.cmd]

\* what update(id, cmd) promises about the list history() returns
UpdateEffect(list, id, cmd) ==
    IF cmd = "" THEN Positions(list, id) = {}
    ELSE /\ Cardinality(Positions(list, id)) = 1
         /\ \A i \in Positions(list, id) : list[i].cmd = cmd

\* C3: when update(id, cmd) returns ok, history() holds right afterwards
\* exactly one entry with that id, with the given command, or none if the
\* command is empty, whichever host wrote the earlier entries of the id
\* and whatever their timestamps.
C3_UpdateTakesEffect ==
    last.op = "update" => UpdateEffect(history(Self), last.id, last.cmd)

\* C4: the list history() returns is sorted by (ts, host, cmd, path) after
\* every operation, whatever timestamps the entries of peers and the
\* imported entries carry.
C4_HistorySorted == up[Self] => IsSorted(history(Self))

\* C5: history() never holds an entry with an empty command, also after a
\* Store request with an empty command.
C5_NoEmptyCmd ==
    up[Self] => \A i \in 1..Len(history(Self)) : history(Self)[i].cmd # ""

\* the entries in the day files of the host's own directory
Durable(h) == DirEntries(DirOf(tree[h], h))

\* the snapshot file holds the active chunk and nothing else
SnapshotIsActive(h) ==
    IF HasActive(hist[h])
    THEN /\ Len(snap[h]) = 1
         /\ Decrypt(snap[h][1]) = Last(hist[h].history[h])
    ELSE snap[h] = <<>>

\* a save has just returned, by itself or as the first half of a sync
Saved == up[Self] /\ last.op \in {"save", "sync"}

Appended(old, new) ==
    \A day \in DOMAIN old : day \in DOMAIN new /\ IsPrefix(old[day], new[day])

\* C7: in every step other than a rebuild, each day file of the host's own
\* directory is kept and only grows by appending: what it held is a prefix
\* of what it holds.
C7_AppendOnly ==
    [][last'.op # "rebuild"
          => Appended(DirOf(tree[Self], Self), DirOf(tree'[Self], Self))]_vars

\* a day file of the host's own directory was appended to by a second save
C7_Witness ==
    /\ last.op # "rebuild"
    /\ \E day \in DOMAIN DirOf(tree[Self], Self) :
          /\ Len(tree[Self][Self][day]) >= 2
          /\ tree[Self][Self][day][1] # tree[Self][Self][day][2]

\* C8: when a sync of a host has succeeded, its history() holds every entry
\* that the other hosts had added and pushed before that sync began; this
\* includes the syncs that follow a push that was rejected as not
\* fast-forward and accepted when retried.
C8_Convergence ==
    \A h \in Hosts : \A s \in done[h] : Holds(history(h), s[1], s[2])

\* two hosts added concurrently, the push of one was rejected and accepted
\* when retried, and after a further sync of each both hold both entries
C8_Witness ==
    /\ \E h \in Hosts : retried[h]
    /\ \A h \in Hosts :
          /\ pc[h] = "idle" /\ syncs[h] = 2 /\ done[h] # {}
          /\ \A s \in stored : Holds(history(h), s[1], s[2])
    /\ \A h \in Hosts : \E s \in stored : \E e \in OwnEntries(hist[h]) : e.id = s[1]

\* the responses the server has written for the k-th request
ResponsesTo(k) == {i \in 1..Len(wire) : wire[i].req = k}

\* C9: for every request other than Rebuild that the server has served, it
\* has written exactly one response before it reads the next request, an
\* Error and nothing else if the request failed; and every message a call
\* of the client reads was written for the request of that call.
C9_OneResponse ==
    /\ \A k \in 1..handled :
          sent[k].kind # "Rebuild" => Cardinality(ResponsesTo(k)) = 1
    /\ \A i \in 1..Len(got) : got[i].req = got[i].call

\* C10: no Git::fetch returns success while the remote holds the lock tag
\* of another host, be it the first fetch that sees the tag or a later one,
\* in the same daemon or after a restart.
C10_NoFetchWhileLocked == ~(fres.result = "ok" /\ fres.rtag # 0)

\* C11: the lock of the remote is exclusive.  While a host holds the guard
\* of a lock() that succeeded, the tag on the remote is the commit of that
\* lock, so no two hosts hold a guard; and a lock() called while the remote
\* holds the tag returns an error and leaves the tag as it was.
C11_LockExclusive ==
    /\ \A h \in Hosts : guard[h] # 0 => rtag = guard[h]
    /\ lres.before # 0 => lres.result = "error" /\ lres.after = lres.before

\* a host has called lock() while another host held the lock, and failed
C11_Witness ==
    /\ lres.result = "error" /\ lres.before # 0
    /\ \E h \in Hosts : h # lres.host /\ guard[h] = lres.before /\ rtag = guard[h]

\* thread t is blocked in Mutex::lock on a mutex that thread u holds
WaitsFor(t, u) == Current(t).op = "acquire" /\ owner[Current(t).what] = u

\* C12: no thread asks for the syncer mutex while it holds the history
\* mutex, and no threads wait for each other's mutexes in a cycle (with two
\* mutexes: a thread waiting for itself, or two threads for each other).
C12_LockOrder ==
    /\ \A t \in Threads :
          Current(t) = Acq("syncer") => owner["history"] # t
    /\ \A t \in Threads : ~WaitsFor(t, t)
    /\ \A t, u \in Threads : ~(WaitsFor(t, u) /\ WaitsFor(u, t))

\* a rebuild worker holds both mutexes while a sync waits for the syncer
\* mutex and a Store for the history mutex
C12_Witness ==
    \E t, u, v \in Threads :
        /\ job[t] = "rebuild" /\ Held(t) = Mutexes
        /\ job[u] = "Background" /\ WaitsFor(u, t)
        /\ job[v] = "Store" /\ WaitsFor(v, t)

\* C13, as stated: no thread holds the history mutex while a git network
\* operation of its own is in progress.
C13_NoHistoryInNetwork ==
    \A t \in Threads : Current(t).op = "net" => owner["history"] # t

\* C13, amended: in every job other than the rebuild worker's (Sync, Exit,
\* the background sync, the signal handler) the history mutex is not held
\* while a git network operation is in progress.
C13_SyncDropsHistory ==
    \A t \in Threads :
        Current(t).op = "net" /\ job[t] # "rebuild" => owner["history"] # t

\* a sync is in push_changes while a connection handler holds the history
\* mutex to serve a Store
C13_Witness ==
    \E t, u \in Threads :
        /\ job[t] = "Sync" /\ Current(t) = Net("push_changes")
        /\ job[u] = "Store" /\ owner["history"] = u

\* the responses to a Sync request among those to the last request
SyncEntries == {i \in 1..Len(sresp) : sresp[i].kind = "sync"}

\* every step of Server::sync has succeeded, the push included if one was due
AllDone(p) ==
    p.refreshed /\ p.written /\ p.committed /\ (p.need => p.pushed)

\* C14: the daemon answers a Sync request with Ack only after refresh,
\* History::sync, the commit and, if a commit is unpushed or force is set,
\* the push have all succeeded; after any failure the one response is Error.
\* No response is written while the sync runs, and an acknowledged sync
\* leaves no unpushed commit: the remote holds the tree of the local HEAD.
C14_AckAfterPush ==
    /\ \A i \in SyncEntries :
          /\ sresp[i].resp \in {"Ack", "Error"}
          /\ sresp[i].resp = "Ack" <=> AllDone(sresp[i].prog)
          /\ sresp[i].force => (sresp[i].prog.committed => sresp[i].prog.need)
    /\ Cardinality(SyncEntries) <= 1
    /\ sreq.kind = "sync" => sresp = <<>>
    /\ (/\ pc[Self] = "idle" /\ sresp # <<>>
        /\ Last(sresp).kind = "sync" /\ Last(sresp).resp = "Ack")
          => ~unpushed[Self] /\ remote = head

\* a forced Sync was acknowledged after its push had been rejected as
\* NotFastForward and accepted at the second attempt
C14_Witness ==
    \E i \in SyncEntries :
       /\ sresp[i].resp = "Ack" /\ sresp[i].force
       /\ sresp[i].prog.pushed /\ sresp[i].prog.attempts = 2

\* the progress of the call in progress and of the call that ended last
Progresses == {prog} \cup {sresp[i].prog : i \in 1..Len(sresp)}

\* the attempts of Git::push: at most two, the second only after the first
\* was NotFastForward and the pull succeeded; a failed push leaves the local
\* commit unpushed, and a call of push_changes that has committed while the
\* branch is ahead attempts the push
PushAttempts ==
    /\ \A p \in Progresses :
          /\ p.attempts <= 2
          /\ p.attempts = 2 => p.first = "NotFastForward" /\ p.pulled
          /\ p.pulled => p.first = "NotFastForward"
          /\ (p.first = "Network" /\ ~p.pushed) => p.attempts = 1
    /\ (/\ pc[Self] = "idle" /\ sresp # <<>>
        /\ Last(sresp).prog.attempts > 0 /\ ~Last(sresp).prog.pushed
        /\ Last(sresp).resp # "exit")
          => unpushed[Self]
    /\ (prog.committed /\ unpushed[Self]) => prog.need
    /\ (prog.need /\ pc[Self] # "push") => prog.attempts > 0

\* the remote would take the branch from Git::push: the branch descends from
\* the remote head, or the pull after the rejection rebases it (the fetch
\* moves the upstream branch)
Pushable == onto[Self] = rver \/ base[Self] # rver

\* C15: a call of push_changes makes at most two push attempts, the second
\* only after the first was NotFastForward and the pull that followed
\* succeeded; any other error ends the call, and the local commit is kept so
\* that a later call of push_changes pushes it: between two calls the
\* unpushed commit is one that Git::push can get onto the remote.
C15_PushAtMostTwice ==
    /\ PushAttempts
    /\ (pc[Self] = "idle" /\ unpushed[Self]) => Pushable


\* the exits of the process that the log holds
ExitEntries == {i \in 1..Len(sresp) : sresp[i].resp = "exit"}

\* the order of the Exit handler: the Ack is in the log and the socket is
\* removed while sync_local runs; Exit with no_sync = true exits without a
\* save
ExitOrder ==
    /\ \A i \in ExitEntries :
          sresp[i].kind = "exit_no_sync" => ~sresp[i].prog.written
    /\ sreq.kind = "exit"
          => /\ ~listening
             /\ \E i \in 1..Len(sresp) :
                   sresp[i].kind = "exit" /\ sresp[i].resp = "Ack"
                   /\ ~sresp[i].prog.written

\* sync_local has saved when it gets past its refresh: the save ran and
\* every entry added by then is in a day file
SavedAfterRefresh ==
    \A i \in ExitEntries :
       (sresp[i].kind \in {"exit", "signal"} /\ sresp[i].prog.committed)
          => sresp[i].prog.written /\ sresp[i].prog.saved

\* C17: after Exit(no_sync = false) and after the first TERM, INT or HUP the
\* daemon has run History::save when the process exits, so every entry it
\* had added is in a day file, whether or not the remote could be reached;
\* the Ack of Exit is sent and the socket removed before the save; Exit with
\* no_sync = true exits without a save.
C17_SaveBeforeExit ==
    /\ \A i \in ExitEntries :
          sresp[i].kind \in {"exit", "signal"}
             => sresp[i].prog.written /\ sresp[i].prog.saved
    /\ ExitOrder


\* C16: at most one process at a time holds the lock on server.pid, and a
\* process serves the socket only while it holds the lock; a start that was
\* refused the lock has not changed server.pid (which keeps the pid the
\* holder wrote), has not removed server.sock and has not loaded or written
\* the snapshot.
C16_OneDaemon ==
    /\ \A p \in Procs : ppc[p] \in Holding <=> pidLock = p
    /\ \A p \in Procs : ppc[p] = "serving" => sock = p
    /\ \A p \in Procs : ppc[p] = "refused" => writes[p] = {}
    /\ \A p \in Procs :
          ppc[p] \in Holding \ {"locked"} => pidFile = p
    /\ \A p \in Procs : \A q \in Procs :
          (ppc[p] = "serving" /\ ppc[q] = "serving") => p = q

\* one process serves the socket, and another was refused the lock
C16_Witness ==
    \E p \in Procs : \E q \in Procs :
       /\ ppc[p] = "serving" /\ sock = p /\ pidFile = p
       /\ ppc[q] = "refused" /\ "server.pid" \notin writes[q]


\* C18: History::rewrite_all_files leaves the list history() returns as it
\* was, and merging the rebuilt chunks again, as the next update or sync
\* does, gives that same list.
C18_RebuildKeepsView ==
    [][last'.op = "rebuild"
          => /\ history(Self)' = history(Self)
             /\ Merge(hist'[Self].history) = history(Self)']_vars

\* the entries of the chunks in memory and of the day files under hosts/
StoredEntries(h) ==
    Range(AllEntries(hist[h].history))
    \cup UNION {DirEntries(tree[h][x]) : x \in DOMAIN tree[h]}

\* Server::rebuild has returned Ok: the request got its four statuses and
\* RebuildComplete(None)
RebuildComplete ==
    /\ up[Self] /\ last.op = "rebuild_request"
    /\ rb.at = 0 /\ rb.res = "ok"
    /\ Cardinality({i \in 1..Len(wire) : wire[i].req = handled}) = 5

\* C19: after a rebuild that succeeded (`vellum rebuild`, Message::Rebuild)
\* the chunks in memory and the day files under hosts/ hold only entries of
\* history(): no entry of a deleted id, no tombstone, no superseded command
\* of an edited id.
C19_RebuildErases ==
    RebuildComplete =>
        /\ StoredEntries(Self) \subseteq Range(history(Self))
        /\ \A e \in StoredEntries(Self) : e.cmd # ""

\* the same for History::rewrite_all_files
RewriteErases ==
    (up[Self] /\ last.op = "rebuild") =>
        /\ StoredEntries(Self) \subseteq Range(history(Self))
        /\ \A e \in StoredEntries(Self) : e.cmd # ""

\* the chunks a History holds for a host
ChunksOf(h, x) == MapGet(hist[h].history, x)

\* the chunks of a host that hold an entry
ChunksWith(h, e) ==
    {i \in 1..Len(ChunksOf(h, e.host)) :
        e \in Range(ChunksOf(h, e.host)[i].entries)}

\* C20: after History::rewrite_all_files every chunk starts at an hour
\* boundary and is not empty, no host has two chunks of one hour, and every
\* entry e of history() is in exactly one chunk, the chunk of e.host that
\* starts at the hour of e.ts.
C20_HourChunks ==
    (up[Self] /\ last.op = "rebuild") =>
        /\ \A x \in Hosts : \A i \in 1..Len(ChunksOf(Self, x)) :
              /\ ChunksOf(Self, x)[i].start = HourOf(ChunksOf(Self, x)[i].start)
              /\ ChunksOf(Self, x)[i].entries # <<>>
              /\ \A j \in 1..Len(ChunksOf(Self, x)) :
                    ChunksOf(Self, x)[i].start = ChunksOf(Self, x)[j].start
                       => i = j
        /\ \A k \in 1..Len(history(Self)) :
              LET e == history(Self)[k]
              IN /\ Cardinality(ChunksWith(Self, e)) = 1
                 /\ \A i \in ChunksWith(Self, e) :
                       ChunksOf(Self, e.host)[i].start = HourOf(e.ts)
                 /\ \A x \in Hosts \ {e.host} :
                       \A i \in 1..Len(ChunksOf(Self, x)) :
                          e \notin Range(ChunksOf(Self, x)[i].entries)

----------------------------------------------------------------------------
\* the Rebuild requests the server has read
RebuildRequests == {k \in 1..handled : sent[k].kind = "Rebuild"}

\* handle_request has returned for the k-th request
Served(k) == k < handled \/ (k = handled /\ rb.at = 0)

\* C21: the messages the server writes for a Rebuild request are
\* RebuildStatus messages followed by one RebuildComplete, which is written
\* exactly once when the worker has ended, carries None if Server::rebuild
\* returned Ok and an error text if it returned an error at any step or
\* panicked, and no message for another request is written between them.
C21_RebuildStream ==
    \A k \in RebuildRequests :
        LET R == ResponsesTo(k)
            C == {i \in R : wire[i].msg = "RebuildComplete"}
            latest == \A k2 \in RebuildRequests : k2 <= k
        IN /\ \A i \in R : wire[i].msg \in {"RebuildStatus", "RebuildComplete"}
           /\ \A i \in R : \A j \in R : \A m \in i..j : wire[m].req = k
           /\ \A i \in C : \A j \in R : j <= i
           /\ Cardinality(C) = IF Served(k) THEN 1 ELSE 0
           /\ latest => Cardinality(R \ C) = rb.said
           /\ (latest /\ Served(k)) =>
                 \A i \in C : wire[i].err = (rb.res # "ok")

\* a Ping was answered, then a Rebuild whose worker failed to lock the
\* remote after its second status
C21_Witness ==
    /\ handled = 2 /\ sent[1].kind = "Ping" /\ sent[2].kind = "Rebuild"
    /\ rb.at = 0 /\ rb.res = "error" /\ rb.said = 2
    /\ Len(wire) = 4 /\ wire[4].msg = "RebuildComplete" /\ wire[4].err

----------------------------------------------------------------------------
\* C22: once the server has answered a request with Error (a failed
\* Update, a failed Sync, a Message that is no request) the daemon is still
\* running and no thread of handle_client has returned because of it: the
\* connection that got the Error and every other connection are open, their
\* threads in the loop that reads and serves the next request, unless the
\* client has closed the connection or written bytes that are no Message.
C22_ErrorKeepsServing ==
    (\E d \in Conns : erred[d]) =>
        /\ up[Self]
        /\ \A c \in Conns :
              /\ cst[c] \in {"none", "open", "eof", "failed"}
              /\ cst[c] = "failed" => cin[c].kind = "garbage"
              /\ cst[c] = "eof" => cin[c] = NoFrame /\ cres[c] = <<>>
              /\ erred[c] /\ cin[c].kind # "garbage" => cst[c] \in {"open", "eof"}

\* connection c1 got an Error and then the History it asked for, and the
\* Store of connection c2 was acknowledged after that Error
C22_Witness ==
    /\ erred["c1"] /\ clast["c1"].msg = "History" /\ cst["c1"] = "open"
    /\ clast["c2"].msg = "Ack" /\ clast["c2"].id # 0
    /\ clast["c2"].id \notin wanted["c1"]

----------------------------------------------------------------------------
\* C23: an update with an id that no entry of history() has (an id never
\* created, or one whose entry has been deleted) gets an Error and leaves
\* the History as it is, its chunk lists, merged and last_write, and the
\* snapshot of the active chunk; it opens no new chunk.
C23_UnknownIdRejected ==
    [][(/\ last'.op \in {"update", "update_failed"}
        /\ ops' = ops + 1
        /\ \A i \in 1..Len(history(Self)) : history(Self)[i].id # last'.id)
       => /\ last'.op = "update_failed"
          /\ hist'[Self] = hist[Self]
          /\ snap'[Self] = snap[Self]
          /\ \E c \in Conns : /\ cres'[c] # cres[c]
                               /\ Head(cres'[c]).msg = "Error"]_vars

\* an entry was stored and deleted, and an update of its id was refused
C23_Witness ==
    /\ last.op = "update_failed" /\ last.id = 1 /\ nextId > 1
    /\ \E e \in added[Self] : e.id = 1 /\ e.cmd = ""
    /\ \E c \in Conns : cres[c] # <<>> /\ Head(cres[c]).msg = "Error"

----------------------------------------------------------------------------
\* the entries of a list that load_entries is to append: those of this
\* host whose id history() does not hold with the same command
ToAppend(entries, list) ==
    SelectSeq(entries, LAMBDA e :
        /\ e.host = Self
        /\ \A i \in 1..Len(list) : list[i].id = e.id => list[i].cmd # e.cmd)

\* the chunks of a list but its active chunk, and the entries of that one
Written(H) ==
    LET chunks == MapGet(H.history, H.host)
    IN IF HasActive(H) THEN SubSeq(chunks, 1, Len(chunks) - 1) ELSE chunks

ActiveEntries(H) ==
    IF HasActive(H) THEN Last(MapGet(H.history, H.host)).entries ELSE <<>>

\* C24: load_entries(entries, false) appends to the active chunk of this
\* host, in their order, exactly the entries of the list that are of this
\* host and whose id history() does not hold or holds with another command,
\* returns their number and leaves the chunks of every other host and the
\* written chunks of this host as they are; load_entries(entries, true)
\* returns an error and changes nothing.
C24_LoadEntries ==
    [][loaded' # loaded =>
        LET H == hist[Self]
            G == hist'[Self]
            new == ToAppend(loaded'.entries, history(Self))
        IN IF loaded'.all_hosts
           THEN ~loaded'.ok /\ G = H /\ snap' = snap /\ tree' = tree
           ELSE /\ loaded'.ok /\ loaded'.count = Len(new)
                /\ HasActive(G)
                /\ Written(G) = Written(H)
                /\ ActiveEntries(G) = ActiveEntries(H) \o new
                /\ \A h \in Hosts \ {Self} :
                      MapGet(G.history, h) = MapGet(H.history, h)]_vars

\* a list of two entries was loaded, of which one was appended, while the
\* History held chunks of the peer and an entry of this host
C24_Witness ==
    /\ last.op = "load_entries" /\ loaded.ok
    /\ Len(loaded.entries) = 2 /\ loaded.count = 1
    /\ MapGet(hist[Self].history, Peer) # <<>>
    /\ \E s \in stored : s[2] # ""

----------------------------------------------------------------------------
\* the records of the day files of one host have starts that differ, so
\* that the sort of the chunks by start has one result
DistinctStarts ==
    \A x \in DOMAIN tree[Self] :
        \A d1 \in DOMAIN tree[Self][x] : \A d2 \in DOMAIN tree[Self][x] :
            \A i \in 1..Len(tree[Self][x][d1]) : \A j \in 1..Len(tree[Self][x][d2]) :
                (d1 # d2 \/ i # j) =>
                    tree[Self][x][d1][i].start # tree[Self][x][d2][j].start

\* C25: the history() that History::read leaves is the same list for every
\* order in which the host directories and the day files of each are
\* enumerated (and for every order in which the map of the chunk lists is
\* iterated when merged is rebuilt).
C25_ReadOrder == view.one = view.other

\* a new History read the directories of two hosts in the reverse of the
\* usual order, the peer's with a deletion of an entry of this host, and
\* holds an entry of each host
C25_Witness ==
    /\ last.op = "read" /\ view.fresh
    /\ view.hosts # HostSeq /\ view.days = "descending" /\ view.map # HostSeq
    /\ DOMAIN tree[Self] = Hosts
    /\ \E e \in DirEntries(tree[Self][Peer]) :
          /\ e.cmd = ""
          /\ \E f \in DirEntries(tree[Self][Self]) : f.id = e.id
    /\ \E i \in 1..Len(view.other) : view.other[i].host = Self
    /\ \E i \in 1..Len(view.other) : view.other[i].host = Peer

----------------------------------------------------------------------------
\* the end of record j of the file
PutEnd(j) == IF j = Len(cput) THEN Len(cfile) ELSE cput[j + 1].at

\* the chunks of the records of the given versions that a read keeps: those
\* with start > last_read, in file order
KeptChunks(versions) ==
    LET kept == SelectSeq(cput, LAMBDA p : /\ p.version \in versions
                                          /\ p.chunk.start > cread.last_read)
    IN [i \in 1..Len(kept) |-> kept[i].chunk]

\* a record that the read decrypts is sealed with another key than the
\* one of the read, or its ciphertext was modified
Unauthentic ==
    \E j \in 1..Len(cput) :
        /\ cput[j].chunk.start > cread.last_read
        /\ cput[j].key # cread.key \/ cput[j].hit

\* C26: a record that write_chunk has written is framed with version 1 in
\* the first octet of its header and the length of its payload in the
\* other seven, and a file of such records read back with the key of the
\* writes yields the chunks written, each with its start and its entries
\* in their order; read with another key, or with an octet of ciphertext
\* modified, the read is an error and yields no chunk.
C26_RoundTrip ==
    /\ \A j \in 1..Len(cput) :
          cput[j].version = CURRENT_CHUNK_VERSION =>
             LET b == SubSeq(cfile, cput[j].at + 1, cput[j].at + 8)
             IN /\ HeaderVersion(b) = 1
                /\ \A i \in 1..8 : b[i].t = "byte"
                /\ HeaderLen(b) = PutEnd(j) - cput[j].at - 8
    /\ (/\ cread.done
        /\ \A j \in 1..Len(cput) : cput[j].version = CURRENT_CHUNK_VERSION)
       => IF Unauthentic
          THEN ~cread.ok /\ cread.chunks = <<>>
          ELSE cread.ok /\ cread.chunks = KeptChunks({CURRENT_CHUNK_VERSION})

\* two records of write_chunk, with different nonces, were read back with
\* their key: two chunks, the first with its two entries in the order written
C26_Witness ==
    /\ cread.done /\ cread.ok /\ Len(cput) = 2
    /\ \A j \in 1..2 : cput[j].version = CURRENT_CHUNK_VERSION
    /\ cput[1].nonce # cput[2].nonce
    /\ Len(cread.chunks) = 2
    /\ cread.chunks[1] = Chunk(2, <<CodecE2, CodecE1>>)
    /\ cread.chunks[2].entries = <<CodecE1>>

----------------------------------------------------------------------------
\* the chunks of the records of version 0 and 1 that a read keeps, in file
\* order, those of version 0 with entries of path ""
ReadableChunks ==
    LET kept == SelectSeq(cput, LAMBDA p : /\ p.version \in {0, 1}
                                          /\ p.chunk.start > cread.last_read)
    IN [i \in 1..Len(kept) |->
          IF kept[i].version = 0
          THEN Chunk(kept[i].chunk.start,
                     [n \in 1..Len(kept[i].chunk.entries) |->
                         ConvertV0(kept[i].chunk.entries[n])])
          ELSE kept[i].chunk]

\* the records of version 0 and 1 that the read decrypts are sealed with its
\* key and are as they were written
KnownAuthentic ==
    \A j \in 1..Len(cput) :
        (cput[j].version \in {0, 1} /\ cput[j].chunk.start > cread.last_read)
            => cput[j].key = cread.key /\ ~cput[j].hit

\* a file whose records all have version 0 or 1 is read without error, and
\* yields their chunks
KnownVersionsRead ==
    (/\ cread.done /\ KnownAuthentic
     /\ \A j \in 1..Len(cput) : cput[j].version \in {0, 1})
        => cread.ok /\ cread.chunks = ReadableChunks

\* C27: the read of a file that holds a record of a version other than 0
\* and 1 is no error, and yields the chunks of the records of version 0 and
\* 1 in file order, as the same file without that record would.
C27_UnknownSkipped ==
    (/\ cread.done /\ KnownAuthentic
     /\ \E j \in 1..Len(cput) : cput[j].version \notin {0, 1})
        => cread.ok /\ cread.chunks = ReadableChunks

----------------------------------------------------------------------------
\* a step of Git::fetch that makes a try_fetch: the first of a call, or one
\* of the loop after its sleep of a second
FetchStep ==
    /\ rtag' = rtag
    /\ <<ltag, fpc, waited, fres>>' # <<ltag, fpc, waited, fres>>
    /\ fpc' = "wait" \/ fres'.result = "ok"

\* a step in which Git::fetch gives up
TimeoutStep == fres'.result = "error" /\ fres' # fres

\* what Git::fetch does when the repository holds no lock tag of an earlier
\* fetch, and what its loop does once a try_fetch has set `locked`: it
\* fetches again after each second, ends with success at the first fetch
\* that sees the tag removed, and with the error after MAX_LOCK_WAIT
FetchLoop ==
    [][/\ waited' <= MAX_LOCK_WAIT
       /\ (FetchStep /\ fpc = "wait") =>
             /\ waited < MAX_LOCK_WAIT /\ waited' = waited + 1
             /\ IF rtag # 0 THEN fpc' = "wait"
                ELSE fpc' = "idle" /\ fres'.result = "ok"
       /\ (FetchStep /\ fpc = "idle") =>
             /\ waited' = 0
             /\ IF rtag # 0 THEN ltag = 0 => fpc' = "wait"
                ELSE fpc' = "idle" /\ fres'.result = "ok"
       /\ TimeoutStep =>
             fpc = "wait" /\ fpc' = "idle" /\ waited >= MAX_LOCK_WAIT]_vars

\* Git::fetch with the steps of its loop taken as long as they are possible
SpecLockFair == SpecLock /\ WF_vars(FetchRetry) /\ WF_vars(FetchTimeout)

\* a Git::fetch that waits comes to an end
FetchEnds == (fpc = "wait") ~> (fpc = "idle")

\* C28: Git::fetch ends, after no more than MAX_LOCK_WAIT seconds of waiting.
\* Every try_fetch it makes while the remote holds the lock tag leaves it
\* waiting, for a fetch a second later; a try_fetch that finds the tag
\* removed ends it with success; it gives up only when it has waited
\* MAX_LOCK_WAIT with the tag present at every fetch.
C28_FetchTerminates ==
    [][/\ waited' <= MAX_LOCK_WAIT
       /\ FetchStep =>
             /\ waited' = IF fpc = "wait" THEN waited + 1 ELSE 0
             /\ IF rtag # 0 THEN fpc' = "wait"
                ELSE fpc' = "idle" /\ fres'.result = "ok"
       /\ TimeoutStep =>
             fpc = "wait" /\ fpc' = "idle" /\ waited >= MAX_LOCK_WAIT]_vars

----------------------------------------------------------------------------
\* no Update was served: every id has one entry among those added
NoUpdates == \A e \in added[Self] : \A f \in added[Self] : e.id = f.id => e = f

\* the command of the Store request that got this id
CmdOf(id) == (CHOOSE s \in stored : s[1] = id)[2]

\* the message that connection c is sent in this step
Sends(c, msg) ==
    /\ cres[c] # <<>> /\ cres'[c] = Tail(cres[c])
    /\ Head(cres[c]).msg = msg

\* C29: with Store requests served on several connections in any order,
\* when the Ack of a Store of a non-empty command is sent, history() holds
\* one entry with its id, and that entry has its command, the session of
\* its connection and the name of this host; as long as no Update is
\* served, history() keeps one entry for each acknowledged Store, holds no
\* id twice and no entry of this host that no Store made; and the History
\* sent in answer to a HistoryRequest holds the entry of every Store whose
\* Ack had been sent when the request was written.
C29_ConcurrentStores ==
    [][NoUpdates' =>
        /\ \A c \in Conns :
              (Sends(c, "Ack") /\ Head(cres[c]).id # 0
                 /\ CmdOf(Head(cres[c]).id) # "") =>
                  LET id == Head(cres[c]).id
                  IN /\ Cardinality(Positions(history(Self), id)) = 1
                     /\ \A i \in Positions(history(Self), id) :
                           /\ history(Self)[i].cmd = CmdOf(id)
                           /\ history(Self)[i].session = SessionOf(c)
                           /\ history(Self)[i].host = Self
                           /\ history(Self)[i].path = ""
        /\ \A id \in acked' :
              CmdOf(id) # "" =>
                 Cardinality(Positions(hist'[Self].merged, id)) = 1
        /\ \A i \in 1..Len(hist'[Self].merged) :
              /\ Positions(hist'[Self].merged, hist'[Self].merged[i].id) = {i}
              /\ hist'[Self].merged[i].host = Self =>
                    <<hist'[Self].merged[i].id, hist'[Self].merged[i].cmd>>
                        \in stored'
        /\ \A c \in Conns :
              Sends(c, "History") =>
                 \A id \in wanted[c] :
                    CmdOf(id) # "" =>
                       \E i \in Positions(Head(cres[c]).list, id) :
                          Head(cres[c]).list[i].cmd = CmdOf(id)]_vars

\* the Stores of two connections were acknowledged, and a History with the
\* entries of both, each with the session of its connection, was sent to a
\* client that asked after both Acks
C29_Witness ==
    /\ NoUpdates
    /\ \E c \in Conns :
          /\ clast[c].msg = "History" /\ cres[c] = <<>>
          /\ wanted[c] = {1, 2} /\ acked = {1, 2}
          /\ Len(clast[c].list) = 2
          /\ {clast[c].list[i].session : i \in 1..2} = {"s1", "s2"}
          /\ \A i \in 1..2 : clast[c].list[i].cmd = "ls"

----------------------------------------------------------------------------
\* a record of the chunk is in a day file of the host's own directory
InDayFile(files, host, chunk) ==
    /\ host \in DOMAIN files
    /\ \E d \in DOMAIN files[host] :
          \E i \in 1..Len(files[host][d]) :
              files[host][d][i] = WriteChunk(chunk)

\* C30: an add or an update on a History that has no active chunk appends
\* to the chunks of this host a new chunk, with the new entry, whose start
\* is greater than last_write; the chunk is the active chunk, and the
\* operation has written it to the snapshot.  A save writes the last chunk
\* of this host, when it holds entries and is in no day file yet, to a day
\* file.
C30_ActiveChunk ==
    [][/\ (/\ ops' = ops + 1 /\ last'.op \in {"store", "update"}
           /\ ~HasActive(hist[Self])) =>
             LET chunks == MapGet(hist[Self].history, Self)
                 after == MapGet(hist'[Self].history, Self)
             IN /\ Len(after) = Len(chunks) + 1
                /\ SubSeq(after, 1, Len(chunks)) = chunks
                /\ Len(Last(after).entries) = 1
                /\ Last(after).entries[1].id = last'.id
                /\ hist'[Self].last_write = hist[Self].last_write
                /\ Last(after).start > hist'[Self].last_write
                /\ HasActive(hist'[Self])
                /\ snap'[Self] = <<WriteChunk(Last(after))>>
       /\ (/\ ops' = ops + 1 /\ last'.op = "save"
           /\ MapGet(hist[Self].history, Self) # <<>>) =>
             LET chunk == Last(MapGet(hist[Self].history, Self))
             IN chunk.entries # <<>> => InDayFile(tree'[Self], Self, chunk)]_vars

----------------------------------------------------------------------------
\* the records of the day files of this host's own directory, day by day
OwnRecords(files) ==
    IF Self \notin DOMAIN files THEN <<>>
    ELSE LET days == SortedDays(DOMAIN files[Self])
         IN Concat([i \in 1..Len(days) |-> files[Self][days[i]]])

\* C31: without a rebuild, no two records of the day files of this host
\* hold the same chunk (the same start and the same entries), and a save
\* or sync that follows a save or sync with no add or update in between
\* appends no record to them.
C31_WrittenOnce ==
    [][/\ \A i \in 1..Len(OwnRecords(tree'[Self])) :
          \A j \in 1..Len(OwnRecords(tree'[Self])) :
             i # j => Decrypt(OwnRecords(tree'[Self])[i])
                         # Decrypt(OwnRecords(tree'[Self])[j])
       /\ (/\ ops' = ops + 1
           /\ last.op \in {"save", "sync"} /\ last'.op \in {"save", "sync"})
          => OwnRecords(tree'[Self]) = OwnRecords(tree[Self])]_vars

----------------------------------------------------------------------------
\* the places of this host's chunk list whose chunk has start > last_write
Unwritten(H) ==
    {i \in 1..Len(MapGet(H.history, H.host)) :
        MapGet(H.history, H.host)[i].start > H.last_write}

\* C32: at most one chunk of this host's chunk list has start > last_write,
\* and such a chunk is the last of the list; so it is after History::load
\* has read the day files of this host and then the snapshot.
C32_OneActive ==
    up[Self] =>
        /\ Cardinality(Unwritten(hist[Self])) <= 1
        /\ Unwritten(hist[Self]) \subseteq
              {Len(MapGet(hist[Self].history, Self))}

----------------------------------------------------------------------------
\* the starts of a chunk list do not decrease
StartsOrdered(chunks) ==
    \A i \in 1..(Len(chunks) - 1) : chunks[i].start <= chunks[i + 1].start

\* C33: the chunk list of every host in the History of the daemon is in
\* the order of its starts, which never decrease along the list.
C33_ChunksOrdered ==
    up[Self] =>
        \A h \in DOMAIN hist[Self].history :
            StartsOrdered(hist[Self].history[h])

\* every chunk of every day file of a host directory with start > since
StartsAfter(dir, since) ==
    LET days == SortedDays(DOMAIN dir)
    IN Concat([i \in 1..Len(days) |->
           LET kept == SelectSeq(dir[days[i]], LAMBDA rec : rec.start > since)
           IN [j \in 1..Len(kept) |-> Decrypt(kept[j])]])

\* the watermarks read_host is called with: the starts of the chunks held
RECURSIVE StartsOf(_)
StartsOf(chunks) ==
    IF chunks = <<>> THEN {} ELSE {Head(chunks).start} \cup StartsOf(Tail(chunks))

Watermarks(h) ==
    {EPOCH, clock[h]} \cup
    UNION {StartsOf(hist[h].history[x]) : x \in DOMAIN hist[h].history}

\* every record lies in the day file named by the date of its start
InDayFiles(dir) ==
    \A d \in DOMAIN dir : \A i \in 1..Len(dir[d]) : DayOf(dir[d][i].start) = d

\* C34, first part: reading a host directory of the working tree with a
\* watermark returns exactly the chunks of all its day files that start
\* after the watermark, every record lying in the day file of its start
C34_ReadSince ==
    \A h \in Hosts : \A x \in DOMAIN tree[h] :
        /\ InDayFiles(tree[h][x])
        /\ \A since \in Watermarks(h) :
              ReadChunks(tree[h][x], since) = StartsAfter(tree[h][x], since)

\* C34 as stated: the same, and a read with the watermark `now` returns the
\* empty list
C34_ReadNow ==
    /\ C34_ReadSince
    /\ \A h \in Hosts : \A x \in DOMAIN tree[h] :
          ReadChunks(tree[h][x], clock[h]) = <<>>

\* the chunks of a host directory that start after `since`
Newer(dir, since) ==
    {r \in UNION {{dir[d][i] : i \in 1..Len(dir[d])} : d \in DOMAIN dir} :
        r.start > since}

\* C34, amended: the read returns exactly the chunks that start after the
\* watermark, and with the watermark `now` it returns the empty list when no
\* chunk of the directory starts after now (the chunks a host with a clock
\* ahead of this one has written are returned)
C34_ReadExact ==
    /\ C34_ReadSince
    /\ \A h \in Hosts : \A x \in DOMAIN tree[h] :
          Newer(tree[h][x], clock[h]) = {} =>
              ReadChunks(tree[h][x], clock[h]) = <<>>

\* a directory with a day file that one watermark skips, and with a day file
\* that another watermark opens to discard one chunk and return another
C34_Witness ==
    \E x \in DOMAIN tree[Self] :
        LET dir == tree[Self][x]
        IN /\ \E since \in Watermarks(Self) :
                 \E d \in DOMAIN dir : d < DayOf(since) /\ dir[d] # <<>>
           /\ \E since \in Watermarks(Self) :
                 /\ ReadChunks(dir, since) # <<>>
                 /\ \E d \in DOMAIN dir : \E i \in 1..Len(dir[d]) :
                       d >= DayOf(since) /\ dir[d][i].start <= since

----------------------------------------------------------------------------
(* The background sync thread of the daemon (src/src/server.rs 204-247)    *)
(* under the wall clock.  The clock goes on between any two steps of the   *)
(* thread, the two calls of Utc::now() of one round of the loop included;  *)
(* thread::sleep returns when the wait has passed.  A sync takes as long   *)
(* as the refresh, the lock of the remote and the push take.               *)

MaxWall == 8

MaxAttempts == 3

\* the most octets a file loses at its end
MaxCut == 14

\* the values of sync.interval: none, and two lengths in clock units
SyncIntervals == {0, 2, 3}

\* the errors self.sync(false) returns: `?` of refresh, of History::sync and
\* of push_changes
SyncErrors == {"refresh", "history", "push"}

\* DurationRound::duration_round_up: a time on a boundary is its own result
DurationRoundUp(now, span) ==
    IF now % span = 0 THEN now ELSE now + (span - (now % span))

\* Server::start_background_sync, at the end of Server::new
StartBackgroundSync(i) ==
    /\ bpc = "new"
    /\ interval' = i
    /\ bpc' = IF i = 0 THEN "none" ELSE "round"
    /\ UNCHANGED <<wall, bnext, attempts, logged>>
    /\ UNCHANGED <<histVars, gitVars, connVars, lockVars, auxButTimer>>

\* background_sync: let next = Utc::now().duration_round_up(interval)
RoundUp ==
    /\ bpc = "round"
    /\ bnext' = DurationRoundUp(wall, interval)
    /\ bpc' = "wait"
    /\ UNCHANGED <<interval, wall, attempts, logged>>
    /\ UNCHANGED <<histVars, gitVars, connVars, lockVars, auxButTimer>>

\* background_sync: let wait = (next - Utc::now()).to_std(); a negative
\* difference is an Err, and the process ends with exit(1)
Wait ==
    /\ bpc = "wait"
    /\ bpc' = IF bnext - wall < 0 THEN "exit" ELSE "sleep"
    /\ UNCHANGED <<interval, wall, bnext, attempts, logged>>
    /\ UNCHANGED <<histVars, gitVars, connVars, lockVars, auxButTimer>>

\* thread::sleep(wait) returns and self.sync(false) is called
Wake ==
    /\ bpc = "sleep" /\ wall >= bnext /\ Len(attempts) < MaxAttempts
    /\ attempts' = Append(attempts, wall)
    /\ bpc' = "sync"
    /\ UNCHANGED <<interval, wall, bnext, logged>>
    /\ UNCHANGED <<histVars, gitVars, connVars, lockVars, auxButTimer>>

\* self.sync(false) returns Ok
SyncOk ==
    /\ bpc = "sync"
    /\ bpc' = "round"
    /\ UNCHANGED <<interval, wall, bnext, attempts, logged>>
    /\ UNCHANGED <<histVars, gitVars, connVars, lockVars, auxButTimer>>

\* self.sync(false) returns an error: error!("Failed to run background sync")
SyncErr(e) ==
    /\ bpc = "sync" /\ e \in SyncErrors
    /\ logged' = logged + 1
    /\ bpc' = "round"
    /\ UNCHANGED <<interval, wall, bnext, attempts>>
    /\ UNCHANGED <<histVars, gitVars, connVars, lockVars, auxButTimer>>

\* the clock goes on by one unit; a sleeping thread wakes when its wait has
\* passed, and nothing runs after exit(1)
Pass ==
    /\ wall < MaxWall /\ bpc # "exit"
    /\ ~(bpc = "sleep" /\ wall >= bnext)
    /\ wall' = wall + 1
    /\ UNCHANGED <<interval, bpc, bnext, attempts, logged>>
    /\ UNCHANGED <<histVars, gitVars, connVars, lockVars, auxButTimer>>

NextTimer ==
    \/ \E i \in SyncIntervals : StartBackgroundSync(i)
    \/ RoundUp
    \/ Wait
    \/ Wake
    \/ SyncOk
    \/ \E e \in SyncErrors : SyncErr(e)
    \/ Pass

SpecTimer == Init /\ [][NextTimer]_vars

\* the interval boundaries in a range of clock values
Boundaries(from, to) == {b \in from..to : b % interval = 0}

\* with interval zero no background thread exists and no sync is attempted
NoThreadAtZero ==
    (bpc # "new" /\ interval = 0) => bpc = "none" /\ attempts = <<>>

\* a sync that fails is logged and the loop goes on to its next round
FailureLogged ==
    [][(bpc = "sync" /\ bpc' # "sync") => bpc' = "round"]_vars

\* a sync is attempted on an interval boundary only
OnBoundary ==
    \A k \in 1..Len(attempts) : attempts[k] % interval = 0

\* the loop of the background thread never ends
LoopContinues == bpc # "exit"

\* between two attempts, and between the last one and the thread now, no
\* interval boundary has passed without an attempt
NoBoundaryMissed ==
    /\ \A k \in 1..(Len(attempts) - 1) :
          Boundaries(attempts[k] + 1, attempts[k + 1] - 1) = {}
    /\ attempts # <<>> =>
          Boundaries(attempts[Len(attempts)] + 1, wall - 1) = {}

\* C35: with interval > 0 the background thread attempts a sync at every
\* interval boundary for as long as the daemon runs, a failed sync being
\* logged and followed by the attempt at the next boundary; with interval
\* zero no background sync is started
C35_BackgroundSync ==
    /\ NoThreadAtZero
    /\ interval > 0 => LoopContinues /\ OnBoundary /\ NoBoundaryMissed

----------------------------------------------------------------------------
(* A day file whose last record is cut short: the write of the record was  *)
(* interrupted, or the file was copied in part.                            *)

\* the number of octets write_chunk has written for the record of a write
FullLen(p) == Len(Framed(EncryptAs(p.version, p.chunk, p.key, p.nonce)))

\* the file loses its last n octets, at least one octet of its last record
\* remaining
Cut(n) ==
    /\ ~cread.done /\ cput # <<>>
    /\ \A k \in 1..Len(cput) : ~cput[k].hit
    /\ n >= 1 /\ n < FullLen(cput[Len(cput)])
    /\ cfile' = SubSeq(cfile, 1, Len(cfile) - n)
    /\ cput' = [cput EXCEPT ![Len(cput)].hit = TRUE]
    /\ UNCHANGED <<cread, histVars, gitVars, connVars, lockVars, auxButCodec>>

NextCut ==
    \/ \E chunk \in CodecChunks, key \in CodecKeys, nonce \in Nonces :
          CodecWrite(chunk, key, nonce)
    \/ \E n \in 1..MaxCut : Cut(n)
    \/ \E key \in CodecKeys, last_read \in {0, 1} : CodecRead(key, last_read)

SpecCut == Init /\ [][NextCut]_vars

RECURSIVE ReadFileError(_, _, _, _)
\* the error that ends the read of ReadFile: "io" of read_exact when the
\* payload is shorter than the header says, "decode" of rmp_serde::from_slice,
\* "crypto" of EncryptedChunk::decrypt, "none" when the read returns Ok
ReadFileError(file, pos, key, last_read) ==
    LET r == HistoryFileRead(file, pos)
    IN IF r.res = "none" THEN "none"
       ELSE IF r.res = "err"
            THEN IF Len(file) - pos - 8 < HeaderLen(SubSeq(file, pos + 1, pos + 8))
                 THEN "io" ELSE "decode"
       ELSE IF r.chunk.start > last_read /\ ~DecryptWith(r.chunk, key).ok
            THEN "crypto"
       ELSE ReadFileError(file, r.pos, key, last_read)

\* the octets of the last record that are left in the file
LastLeft == Len(cfile) - cput[Len(cput)].at

\* the last record of the file is cut short, and the file was read with the
\* key of its records
TruncatedRead ==
    /\ cread.done /\ cput # <<>>
    /\ LastLeft < FullLen(cput[Len(cput)])
    /\ \A j \in 1..Len(cput) : cput[j].key = cread.key

\* a record cut inside its payload: read_exact fails, the read is an error
CutInPayload ==
    (TruncatedRead /\ LastLeft >= 8) =>
        /\ ~cread.ok
        /\ ReadFileError(cfile, 0, cread.key, cread.last_read) = "io"

\* C36: the read of a file whose last record is cut short at any octet after
\* its first, inside the header of eight octets or inside the payload, fails
\* with a framing or IO error, not with a crypto error, and does not return
\* Ok with the record dropped
C36_TruncatedFails ==
    TruncatedRead =>
        /\ ~cread.ok
        /\ ReadFileError(cfile, 0, cread.key, cread.last_read) \in {"io", "decode"}

----------------------------------------------------------------------------
(* Two daemons that sync through the remote, one of which rebuilds all     *)
(* files and pushes them: History::rewrite_all_files on the refreshed      *)
(* working tree, then push_changes of the locked syncer, a commit without  *)
(* parent that is pushed with force.                                       *)

\* the (id, cmd) of the entries of a list
PairsOf(list) == {<<list[i].id, list[i].cmd>> : i \in 1..Len(list)}

\* GitGuard::refresh, History::rewrite_all_files, GitGuard::push_changes
RebuildPush(h) ==
    /\ up[h] /\ pc[h] = "idle" /\ rebuilt.by = "none"
    /\ LET r == RewriteAllFiles(hist[h], clock[h])
       IN /\ hist' = [hist EXCEPT ![h] = r.H]
          /\ snap' = [snap EXCEPT ![h] = r.snap]
          /\ tree' = [tree EXCEPT ![h] = r.files]
          /\ clock' = [clock EXCEPT ![h] = clock[h] + r.ticks]
          /\ remote' = Tracked(r.files)
          /\ rebuilt' = [by |-> h, view |-> PairsOf(r.H.merged), syncs |-> syncs]
    /\ rver' = rver + 1
    /\ base' = [base EXCEPT ![h] = rver + 1]
    /\ onto' = [onto EXCEPT ![h] = rver + 1]
    /\ unpushed' = [unpushed EXCEPT ![h] = FALSE]
    /\ last' = Op("rebuild", 0, "")
    /\ UNCHANGED <<up, nextId, stored, added, ops>>
    /\ UNCHANGED <<pc, syncs, pending, done, retried>>
    /\ UNCHANGED <<connVars, lockVars, auxButRebuild>>

NextRebuild ==
    \E h \in Hosts :
        \/ StoreAny(h)
        \/ SyncStart(h)
        \/ TryPush(h)
        \/ RetryPull(h)
        \/ TryPushAgain(h)
        \/ RebuildPush(h)

SpecRebuild == InitSync /\ [][NextRebuild]_vars

\* host h was running before the rebuild of another host, and a sync of h
\* that began after the rebuild was pushed has succeeded
SyncedAfterRebuild(h) ==
    /\ rebuilt.by \notin {"none", h}
    /\ syncs[h] > rebuilt.syncs[h]
    /\ pc[h] = "idle" /\ ~unpushed[h]

\* C37: after a host has rebuilt all files and pushed them, every other
\* host that was running before the rebuild and then completes a successful
\* sync, without a restart, has in its history() every entry of the
\* history() of the host that rebuilt
C37_RebuildConvergence ==
    \A h \in Hosts :
        SyncedAfterRebuild(h) =>
            \A s \in rebuilt.view : Holds(history(h), s[1], s[2])

\* the same for a host that had read nothing of the other host before the
\* rebuild
FirstReadAfterRebuild ==
    \A h \in Hosts :
        (SyncedAfterRebuild(h) /\ rebuilt.syncs[h] = 0) =>
            \A s \in rebuilt.view : Holds(history(h), s[1], s[2])

----------------------------------------------------------------------------
\* the entries of the records of this host's own day files, in file order
OwnWritten(files) ==
    LET recs == OwnRecords(files)
    IN Concat([i \in 1..Len(recs) |-> Decrypt(recs[i]).entries])

\* the entries of the chunks of this host that are not yet written
Unsaved(H) ==
    LET chunks == MapGet(H.history, H.host)
    IN UNION {Range(chunks[i].entries) : i \in Unwritten(H)}

\* Server::sync returns the error of Syncer::refresh
RefreshFails ==
    pc[Self] = "refresh" /\ sreq.kind = "sync" /\ pc'[Self] = "idle"

\* History::sync of Server::sync returns Ok
SyncWrites ==
    pc[Self] = "history" /\ sreq.kind = "sync" /\ pc'[Self] = "commit"

\* C38: when the refresh of a sync fails, the History, the snapshot file and
\* the day files are as they were, the unsaved entries still in the active
\* chunk; the History::sync of the next sync whose refresh succeeds writes
\* them, and every entry this daemon has added is then in its day files
\* once.
C38_RefreshFailure ==
    [][/\ RefreshFails =>
             /\ hist' = hist /\ snap' = snap /\ tree' = tree
             /\ Unsaved(hist'[Self]) = Unsaved(hist[Self])
       /\ SyncWrites =>
             /\ Unsaved(hist[Self]) \subseteq Range(OwnWritten(tree'[Self]))
             /\ \A e \in added[Self] :
                   Cardinality(Positions(OwnWritten(tree'[Self]), e.id)) = 1]_vars

\* the refresh of a sync has failed while an entry was unsaved: the sync has
\* answered with an error and the entry is in the active chunk and in the
\* snapshot file
C38_Witness ==
    /\ pc[Self] = "idle" /\ sresp # <<>>
    /\ sresp[1].kind = "sync" /\ sresp[1].resp = "Error"
    /\ ~sresp[1].prog.refreshed
    /\ Unsaved(hist[Self]) # {} /\ snap[Self] # <<>>

----------------------------------------------------------------------------
\* load_entries(es, false) has returned Ok and is called again with the same
\* list, no other operation in between
LoadedAgain ==
    /\ last.op = "load_entries" /\ last'.op = "load_entries"
    /\ ops' = ops + 1
    /\ ~loaded.all_hosts /\ ~loaded'.all_hosts
    /\ loaded'.entries = loaded.entries

\* C39: load_entries is idempotent.  A second call of load_entries(es, false)
\* with the same list, right after the first, returns 0, appends no entry to
\* a chunk and leaves history() as it was, for every list es.
C39_LoadIdempotent ==
    [][LoadedAgain =>
          /\ loaded'.count = 0
          /\ AllEntries(hist'[Self].history) = AllEntries(hist[Self].history)
          /\ history(Self)' = history(Self)]_vars

\* the same when no Store of an empty command was served
LoadAgainNoEmpty ==
    [][(LoadedAgain /\ \A x \in stored : x[2] # "")
          => /\ loaded'.count = 0
             /\ AllEntries(hist'[Self].history) = AllEntries(hist[Self].history)
             /\ history(Self)' = history(Self)]_vars

\* the same for a list that holds each id once, when the chunks hold at
\* most one entry of each of its ids after the first call
LoadNewAgain ==
    [][(/\ LoadedAgain
        /\ \A k \in 1..Len(loaded.entries) :
              /\ \A m \in 1..Len(loaded.entries) :
                    (m # k /\ loaded.entries[m].host = Self)
                        => loaded.entries[m].id # loaded.entries[k].id
              /\ Cardinality(Positions(AllEntries(hist[Self].history),
                                       loaded.entries[k].id)) <= 1)
          => /\ loaded'.count = 0
             /\ AllEntries(hist'[Self].history) = AllEntries(hist[Self].history)
             /\ history(Self)' = history(Self)]_vars

----------------------------------------------------------------------------
(* Two daemons that add, edit and delete entries and sync through the      *)
(* remote: `vellum delete` sends Update with an empty command, `vellum     *)
(* edit` sends Update with the new command.                                 *)

\* Message::Store on either host
StoreFew(h) ==
    /\ nextId <= MaxStores
    /\ StoreReq(h, "ls", "/home", "s1")

\* Message::Update on either host, for an id its history() holds
UpdateAny(h) ==
    \E id \in 1..MaxStores, cmd \in UpdateCmds : UpdateReq(h, id, cmd, "s1")

NextDelete ==
    \E h \in Hosts :
        \/ StoreFew(h)
        \/ UpdateAny(h)
        \/ SyncStart(h)
        \/ TryPush(h)
        \/ RetryPull(h)
        \/ TryPushAgain(h)

SpecDelete == InitSync /\ [][NextDelete]_vars

\* a tombstone of the id is among the entries of the chunks of the History
HasTombstone(H, id) ==
    \E e \in Range(AllEntries(H.history)) : e.id = id /\ e.cmd = ""

\* C40: deletion is permanent.  Once a tombstone of an id is part of the
\* history data of a host, history() of that host does not hold the id,
\* whatever updates and syncs follow on any host.
C40_DeletionPermanent ==
    \A h \in Hosts : \A id \in 1..MaxStores :
        HasTombstone(hist[h], id) => Positions(history(h), id) = {}

\* an id that a tombstone has removed from history() stays out of it
StaysDeleted ==
    [][\A h \in Hosts : \A id \in 1..MaxStores :
          (HasTombstone(hist[h], id) /\ Positions(history(h), id) = {})
              => Positions(history(h)', id) = {}]_vars

\* the same while the tombstone is the entry of the id with the latest
\* timestamp among the entries the host holds
LatestTombstoneHides ==
    \A h \in Hosts : \A id \in 1..MaxStores :
        (\E e \in Range(AllEntries(hist[h].history)) :
            /\ e.id = id /\ e.cmd = ""
            /\ \A f \in Range(AllEntries(hist[h].history)) :
                  (f.id = id /\ f # e) => EntryLess(f, e))
        => Positions(history(h), id) = {}

====
